---- MODULE Spec2Model ----
(***************************************************************************)
(* Newsletter parsing helpers of the newsletter agent: sender parsing, URL *)
(* extraction, primary-URL resolution and newsletter-name resolution.      *)
(*                                                                         *)
(* A Python str is modelled as a sequence of one-character strings, so     *)
(* that slicing, splitting, case folding and regular-expression matching   *)
(* are computed character by character, as the interpreter computes them.  *)
(***************************************************************************)
EXTENDS Integers, Sequences, FiniteSets, TLC

(***************************************************************************)
(* Characters and the str methods the code uses.                           *)
(***************************************************************************)
UpperChars == <<"A","B","C","D","E","F","G","H","I","J","K","L","M","N","O","P","Q","R","S","T","U","V","W","X","Y","Z">>
LowerChars == <<"a","b","c","d","e","f","g","h","i","j","k","l","m","n","o","p","q","r","s","t","u","v","w","x","y","z">>

IndexIn(c, q) == IF \E i \in 1..Len(q) : q[i] = c
                 THEN CHOOSE i \in 1..Len(q) : q[i] = c
                 ELSE 0

\* str.lower() on one character
LowerChar(c) == LET i == IndexIn(c, UpperChars) IN IF i = 0 THEN c ELSE LowerChars[i]
\* str.upper() on one character
UpperChar(c) == LET i == IndexIn(c, LowerChars) IN IF i = 0 THEN c ELSE UpperChars[i]
IsCased(c) == IndexIn(c, UpperChars) # 0 \/ IndexIn(c, LowerChars) # 0

\* str.lower()
Lower(s) == [i \in 1..Len(s) |-> LowerChar(s[i])]

\* the characters str.strip() and the regex class \s treat as whitespace
Whitespace == {" ", "\t", "\n", "\r"}

\* s[a:b] with 1-based inclusive bounds
Slice(s, a, b) == IF a > b THEN <<>> ELSE SubSeq(s, a, b)

\* `sub in s` at position i
OccursAt(sub, s, i) ==
    /\ i >= 1
    /\ i + Len(sub) - 1 <= Len(s)
    /\ \A j \in 1..Len(sub) : s[i + j - 1] = sub[j]

\* `sub in s`
Contains(s, sub) == \E i \in 1..(Len(s) - Len(sub) + 1) : OccursAt(sub, s, i)

\* s.find(sub) from position `from`, 0 when absent
FindFrom(s, sub, from) ==
    LET hits == {i \in from..(Len(s) - Len(sub) + 1) : OccursAt(sub, s, i)}
    IN IF hits = {} THEN 0 ELSE CHOOSE i \in hits : \A j \in hits : i <= j

\* s.strip(chars): drop leading and trailing characters of the set
StripSet(s, chars) ==
    LET keep == {i \in 1..Len(s) : s[i] \notin chars}
    IN IF keep = {} THEN <<>>
       ELSE LET a == CHOOSE i \in keep : \A j \in keep : i <= j
                b == CHOOSE i \in keep : \A j \in keep : i >= j
            IN SubSeq(s, a, b)

\* s.strip()
Strip(s) == StripSet(s, Whitespace)

\* s.split(sep): the list of pieces between non-overlapping occurrences
RECURSIVE SplitFrom(_, _, _)
SplitFrom(s, sep, from) ==
    LET p == FindFrom(s, sep, from)
    IN IF p = 0 THEN << Slice(s, from, Len(s)) >>
       ELSE << Slice(s, from, p - 1) >> \o SplitFrom(s, sep, p + Len(sep))

Split(s, sep) == SplitFrom(s, sep, 1)

\* s.replace(old, new)
RECURSIVE ReplaceFrom(_, _, _, _)
ReplaceFrom(s, old, new, from) ==
    LET p == FindFrom(s, old, from)
    IN IF p = 0 THEN Slice(s, from, Len(s))
       ELSE Slice(s, from, p - 1) \o new \o ReplaceFrom(s, old, new, p + Len(old))

Replace(s, old, new) == ReplaceFrom(s, old, new, 1)

\* s.title(): a cased character is upper-cased when it starts a run of cased
\* characters and lower-cased inside one
Title(s) ==
    [i \in 1..Len(s) |->
        IF i > 1 /\ IsCased(s[i - 1]) THEN LowerChar(s[i]) ELSE UpperChar(s[i])]

(***************************************************************************)
(* Regular expressions (module re).  A pattern is a sequence of items:     *)
(*   lit   a literal string                                                *)
(*   rep   a character class taken once (x, x? : many = FALSE) or          *)
(*         repeatedly (x*, x+ : many = TRUE), greedy or lazy               *)
(*   alt   an alternation of patterns, tried left to right                 *)
(*   open / close   the parentheses of capture group 1                     *)
(* Match is the backtracking matcher of re: it returns the first match in  *)
(* re's priority order (greedy: longest first, lazy: shortest first,       *)
(* alternatives left to right).                                            *)
(***************************************************************************)
Lit(str)            == [k |-> "lit", s |-> str]
One(set)            == [k |-> "rep", neg |-> FALSE, set |-> set, min |-> 1, many |-> FALSE, lazy |-> FALSE]
Opt(set)            == [k |-> "rep", neg |-> FALSE, set |-> set, min |-> 0, many |-> FALSE, lazy |-> FALSE]
NotPlus(set)        == [k |-> "rep", neg |-> TRUE, set |-> set, min |-> 1, many |-> TRUE, lazy |-> FALSE]
NotStar(set)        == [k |-> "rep", neg |-> TRUE, set |-> set, min |-> 0, many |-> TRUE, lazy |-> FALSE]
AnyLazy             == [k |-> "rep", neg |-> TRUE, set |-> {}, min |-> 0, many |-> TRUE, lazy |-> TRUE]
Alt(alts)           == [k |-> "alt", alts |-> alts]
Open                == [k |-> "open"]
Close               == [k |-> "close"]

NoMatch == [ok |-> FALSE, b |-> 0, e |-> 0, cap |-> <<0, 0>>]

\* a literal at position i; under re.IGNORECASE the pattern's literals are
\* lower case and the subject is folded
LitAt(lit, s, i, ic) ==
    /\ i + Len(lit) - 1 <= Len(s)
    /\ \A j \in 1..Len(lit) :
          IF ic THEN LowerChar(s[i + j - 1]) = lit[j] ELSE s[i + j - 1] = lit[j]

InClass(it, c, ic) ==
    LET in == c \in it.set \/ (ic /\ LowerChar(c) \in it.set)
    IN IF it.neg THEN ~in ELSE in

\* how many characters from position i on the repetition can take
Run(it, s, i, ic) ==
    LET stop == CHOOSE p \in i..(Len(s) + 1) :
                    /\ p > Len(s) \/ ~InClass(it, s[p], ic)
                    /\ \A q \in i..(p - 1) : InClass(it, s[q], ic)
    IN IF it.many \/ stop = i THEN stop - i ELSE 1

\* a list comprehension, computed once
Computed(f) == f \o <<>>

\* the first result, in list order, that is a match
FirstOk(rs) ==
    IF \E j \in DOMAIN rs : rs[j].ok
    THEN rs[CHOOSE j \in DOMAIN rs : rs[j].ok /\ \A c \in 1..(j - 1) : ~rs[c].ok]
    ELSE NoMatch

RECURSIVE Match(_, _, _, _, _, _)

\* the match of items[k..] at position i of s that re's backtracking finds
\* first; cap holds the bounds of group 1 so far
Match(items, k, s, i, cap, ic) ==
    IF k > Len(items) THEN [ok |-> TRUE, b |-> 0, e |-> i, cap |-> cap]
    ELSE LET it == items[k] IN
        CASE it.k = "lit" ->
                IF LitAt(it.s, s, i, ic)
                THEN Match(items, k + 1, s, i + Len(it.s), cap, ic)
                ELSE NoMatch
          [] it.k = "open"  -> Match(items, k + 1, s, i, <<i, cap[2]>>, ic)
          [] it.k = "close" -> Match(items, k + 1, s, i, <<cap[1], i>>, ic)
          [] it.k = "alt"   ->
                \* the alternatives left to right, each followed by the rest
                LET rest == SubSeq(items, k + 1, Len(items))
                IN FirstOk(Computed([a \in 1..Len(it.alts) |->
                                Match(it.alts[a] \o rest, 1, s, i, cap, ic)]))
          [] it.k = "rep"   ->
                \* the repetition counts in order of preference: lazy from the
                \* least up, greedy from the greatest down
                LET run == Run(it, s, i, ic)
                    N(j) == IF it.lazy THEN it.min + j - 1 ELSE run - j + 1
                IN IF run < it.min THEN NoMatch
                   ELSE FirstOk(Computed([j \in 1..(run - it.min + 1) |->
                                Match(items, k + 1, s, i + N(j), cap, ic)]))

\* re.search(pattern, s) from position `from`: the leftmost match
SearchFrom(items, s, from, ic) ==
    IF from > Len(s) + 1 THEN NoMatch
    ELSE FirstOk(Computed([j \in 1..(Len(s) + 2 - from) |->
                    [Match(items, 1, s, from + j - 1, <<0, 0>>, ic)
                        EXCEPT !.b = from + j - 1]]))

Search(items, s, ic) == SearchFrom(items, s, 1, ic)

\* m.group(0) and m.group(1)
Group0(s, m) == Slice(s, m.b, m.e - 1)
Group1(s, m) == Slice(s, m.cap[1], m.cap[2] - 1)

\* re.findall(pattern, s) of a pattern without groups: the non-overlapping
\* matches, left to right
RECURSIVE FindAllFrom(_, _, _, _)
FindAllFrom(items, s, from, ic) ==
    LET m == SearchFrom(items, s, from, ic)
    IN IF ~m.ok THEN <<>>
       ELSE << Group0(s, m) >>
            \o FindAllFrom(items, s, IF m.e > m.b THEN m.e ELSE m.e + 1, ic)

FindAll(items, s, ic) == FindAllFrom(items, s, 1, ic)


(***************************************************************************)
(* parse_sender                                                            *)
(***************************************************************************)
\* x or y on two strings: the first if it is non-empty
PyOr(x, y) == IF x # <<>> THEN x ELSE y

\* parse_sender without the .strip() of the address
ParseSenderUntrimmed(sender) ==
    IF Contains(sender, <<"<">>) /\ Contains(sender, <<">">>)
    THEN << StripSet(Strip(Split(sender, <<"<">>)[1]), {"\""}),
            Split(Split(sender, <<"<">>)[2], <<">">>)[1] >>
    ELSE << sender, sender >>

\* parse_sender trimming the header it cannot split
ParseSenderTrimRaw(sender) ==
    IF Contains(sender, <<"<">>) /\ Contains(sender, <<">">>)
    THEN << StripSet(Strip(Split(sender, <<"<">>)[1]), {"\""}),
            Strip(Split(Split(sender, <<"<">>)[2], <<">">>)[1]) >>
    ELSE << Strip(sender), Strip(sender) >>

\* returns <<name, email>>
ParseSender(sender) ==
    IF Contains(sender, <<"<">>) /\ Contains(sender, <<">">>)
    THEN << StripSet(Strip(Split(sender, <<"<">>)[1]), {"\""}),
            Strip(Split(Split(sender, <<"<">>)[2], <<">">>)[1]) >>
    ELSE << sender, sender >>

(***************************************************************************)
(* extract_urls, in its three copies                                       *)
(***************************************************************************)
Quotes == {"\"", "'"}

\* the character U+0060, which a TLA+ string cannot hold
Backquote == "backquote"

\* https?://[^\s<>\x22{\|}\\^`\[\]]+
UrlPattern ==
    << Lit(<<"h","t","t","p">>), Opt({"s"}), Lit(<<":","/","/">>),
       NotPlus(Whitespace \cup {"<", ">", "\"", "{", "|", "}", "\\", "^", Backquote, "[", "]"}) >>

\* https?://[^\s<>\x22{\|}\\^`$begin:math:display$$end:math:display$]+
\* the class of gmail_fetcher/email_parser.py: the brackets are gone from it
\* and $, : and the letters of begin, math, display, end are in it
LegacyUrlPattern ==
    << Lit(<<"h","t","t","p">>), Opt({"s"}), Lit(<<":","/","/">>),
       NotPlus(Whitespace \cup {"<", ">", "\"", "{", "|", "}", "\\", "^", Backquote, "$", ":",
                                "b", "e", "g", "i", "n", "m", "a", "t", "h",
                                "d", "s", "p", "l", "y"}) >>

skip_domains == << <<"u","n","s","u","b","s","c","r","i","b","e">>, <<"t","r","a","c","k","i","n","g">>, <<"p","i","x","e","l">>, <<"o","p","e","n",".","s","u","b","s","t","a","c","k",".","c","o","m">> >>

Limit == 10

\* the skip test without .lower()
SkippedCaseSensitive(url) == \E k \in 1..Len(skip_domains) : Contains(url, skip_domains[k])

\* any(d in url.lower() for d in skip_domains)
Skipped(url) == \E k \in 1..Len(skip_domains) : Contains(Lower(url), skip_domains[k])

Reverse(q) == [i \in 1..Len(q) |-> q[Len(q) + 1 - i]]
Rotate(q, r) == [i \in 1..Len(q) |-> q[((i + r - 1) % Len(q)) + 1]]

\* the distinct elements of a list, by first occurrence
Distinct(q) ==
    LET first == {i \in 1..Len(q) : \A j \in 1..(i - 1) : q[j] # q[i]}
        Nth[n \in 1..Cardinality(first)] ==
            CHOOSE i \in first : Cardinality({j \in first : j < i}) = n - 1
    IN [n \in 1..Cardinality(first) |-> q[Nth[n]]]

\* set(urls): the elements once each, in an iteration order the hash seed
\* decides.  The orders taken are the rotations of the first-occurrence
\* order and of its reverse: every order of a set of up to three elements,
\* and for a larger set every choice of the one element left out of a
\* prefix one shorter than the set.
SetOrders(urls) ==
    LET d == Distinct(urls)
    IN IF d = <<>> THEN {<<>>}
       ELSE {Rotate(d, r) : r \in 0..(Len(d) - 1)}
            \cup {Rotate(Reverse(d), r) : r \in 0..(Len(d) - 1)}

\* q[:10]
Truncate(q) == SubSeq(q, 1, IF Len(q) < Limit THEN Len(q) ELSE Limit)

NotSkipped(url) == ~Skipped(url)

\* extract_urls cutting the list to ten before it filters
ExtractUrlsCutFirst(pattern, content) ==
    IF content = <<>> THEN {<<>>}
    ELSE {SelectSeq(Truncate(o), NotSkipped) : o \in SetOrders(FindAll(pattern, content, FALSE))}

\* the lists extract_urls(content) can return with the given URL pattern
ExtractUrlsWith(pattern, content) ==
    IF content = <<>> THEN {<<>>}
    ELSE {Truncate(SelectSeq(o, NotSkipped)) : o \in SetOrders(FindAll(pattern, content, FALSE))}

\* newsletter_interface/email_parser.py
ExtractUrls(content) == ExtractUrlsWith(UrlPattern, content)

\* gmail_fetcher/receive_email.py: the same steps written as a loop
FetcherExtractUrls(content) == ExtractUrlsWith(UrlPattern, content)

\* gmail_fetcher/email_parser.py
LegacyExtractUrls(content) == ExtractUrlsWith(LegacyUrlPattern, content)

(***************************************************************************)
(* extract_primary_url                                                     *)
(***************************************************************************)
\* <link[^>]+rel=[\x22']canonical[\x22'][^>]+href=[\x22']([^\x22']+)[\x22']   (IGNORECASE)
CanonicalPattern ==
    << Lit(<<"<","l","i","n","k">>), NotPlus({">"}), Lit(<<"r","e","l","=">>), One(Quotes), Lit(<<"c","a","n","o","n","i","c","a","l">>),
       One(Quotes), NotPlus({">"}), Lit(<<"h","r","e","f","=">>), One(Quotes),
       Open, NotPlus(Quotes), Close, One(Quotes) >>

primary_skip_domains ==
    << <<"u","n","s","u","b","s","c","r","i","b","e">>, <<"t","r","a","c","k","i","n","g">>, <<"p","i","x","e","l">>, <<"o","p","e","n",".","s","u","b","s","t","a","c","k",".","c","o","m">>, <<"m","a","i","l","c","h","i",".","m","p">>,
       <<"c","o","n","s","t","a","n","t","c","o","n","t","a","c","t",".","c","o","m">>, <<"c","a","m","p","a","i","g","n","-","a","r","c","h","i","v","e",".","c","o","m">>, <<"u","s","-","e","a","s","t","-","1",".","a","m","a","z","o","n","a","w","s",".","c","o","m">> >>

\* [^?\s<>\x22]+
PathTail == NotPlus(Whitespace \cup {"?", "<", ">", "\""})

\* https://[^/]+\.substack\.com/p/[^?\s<>\x22]+
SubstackPattern == << Lit(<<"h","t","t","p","s",":","/","/">>), NotPlus({"/"}), Lit(<<".","s","u","b","s","t","a","c","k",".","c","o","m","/","p","/">>), PathTail >>
\* https://[^/]*medium\.com/[^?\s<>\x22]+
MediumPattern == << Lit(<<"h","t","t","p","s",":","/","/">>), NotStar({"/"}), Lit(<<"m","e","d","i","u","m",".","c","o","m","/">>), PathTail >>
\* https://[^/]+\.beehiiv\.com/p/[^?\s<>\x22]+
BeehiivPattern == << Lit(<<"h","t","t","p","s",":","/","/">>), NotPlus({"/"}), Lit(<<".","b","e","e","h","i","i","v",".","c","o","m","/","p","/">>), PathTail >>
\* https://[^/]+\.ck\.page/[^?\s<>\x22]+
ConvertkitPattern == << Lit(<<"h","t","t","p","s",":","/","/">>), NotPlus({"/"}), Lit(<<".","c","k",".","p","a","g","e","/">>), PathTail >>
\* https://[^/]+/[^?\s<>\x22]+
GhostOrgPattern == << Lit(<<"h","t","t","p","s",":","/","/">>), NotPlus({"/"}), Lit(<<"/">>), PathTail >>
\* https://[^/]+\.mailerlite\.com/[^?\s<>\x22]+
MailerlitePattern == << Lit(<<"h","t","t","p","s",":","/","/">>), NotPlus({"/"}), Lit(<<".","m","a","i","l","e","r","l","i","t","e",".","c","o","m","/">>), PathTail >>
\* https://[^/]*medium\.com/@[^/]+/[^?\s<>\x22]+
MediumUserPattern ==
    << Lit(<<"h","t","t","p","s",":","/","/">>), NotStar({"/"}), Lit(<<"m","e","d","i","u","m",".","c","o","m","/","@">>), NotPlus({"/"}), Lit(<<"/">>), PathTail >>
\* https://[^/]*medium\.com/[^/]+/[^?\s<>\x22]+
MediumPubPattern ==
    << Lit(<<"h","t","t","p","s",":","/","/">>), NotStar({"/"}), Lit(<<"m","e","d","i","u","m",".","c","o","m","/">>), NotPlus({"/"}), Lit(<<"/">>), PathTail >>
\* https://[^/]+\.ghost\.io/[^?\s<>\x22]+
GhostIoPattern == << Lit(<<"h","t","t","p","s",":","/","/">>), NotPlus({"/"}), Lit(<<".","g","h","o","s","t",".","i","o","/">>), PathTail >>

\* the dict domain_patterns, in insertion order
domain_patterns ==
    << << <<"s","u","b","s","t","a","c","k",".","c","o","m">>, SubstackPattern >>,
       << <<"m","e","d","i","u","m",".","c","o","m">>, MediumPattern >>,
       << <<"s","u","b","s","t","a","c","k","c","d","n",".","c","o","m">>, SubstackPattern >>,
       << <<"b","e","e","h","i","i","v",".","c","o","m">>, BeehiivPattern >>,
       << <<"c","o","n","v","e","r","t","k","i","t",".","c","o","m">>, ConvertkitPattern >>,
       << <<"g","h","o","s","t",".","o","r","g">>, GhostOrgPattern >>,
       << <<"m","a","i","l","e","r","l","i","t","e",".","c","o","m">>, MailerlitePattern >> >>

newsletter_patterns ==
    << SubstackPattern, MediumUserPattern, MediumPubPattern,
       BeehiivPattern, GhostIoPattern, ConvertkitPattern >>

\* (?:view.*?browser|read.*?online|view.*?web|open.*?browser)
BrowserPhrase ==
    Alt(<< << Lit(<<"v","i","e","w">>), AnyLazy, Lit(<<"b","r","o","w","s","e","r">>) >>,
           << Lit(<<"r","e","a","d">>), AnyLazy, Lit(<<"o","n","l","i","n","e">>) >>,
           << Lit(<<"v","i","e","w">>), AnyLazy, Lit(<<"w","e","b">>) >>,
           << Lit(<<"o","p","e","n">>), AnyLazy, Lit(<<"b","r","o","w","s","e","r">>) >> >>)

\* the two browser_patterns   (IGNORECASE | DOTALL)
browser_patterns ==
    << \* <a[^>]+href=[\x22']([^\x22']+)[\x22'][^>]*>.*?(?:...)
       << Lit(<<"<","a">>), NotPlus({">"}), Lit(<<"h","r","e","f","=">>), One(Quotes),
          Open, NotPlus(Quotes), Close, One(Quotes), NotStar({">"}), Lit(<<">">>),
          AnyLazy, BrowserPhrase >>,
       \* <a[^>]+>.*?(?:...).*?</a>[^<]*href=[\x22']([^\x22']+)[\x22']
       << Lit(<<"<","a">>), NotPlus({">"}), Lit(<<">">>), AnyLazy, BrowserPhrase, AnyLazy,
          Lit(<<"<","/","a",">">>), NotStar({"<"}), Lit(<<"h","r","e","f","=">>), One(Quotes),
          Open, NotPlus(Quotes), Close, One(Quotes) >> >>

social_domains == << <<"t","w","i","t","t","e","r",".","c","o","m">>, <<"f","a","c","e","b","o","o","k",".","c","o","m">>, <<"l","i","n","k","e","d","i","n",".","c","o","m">>, <<"i","n","s","t","a","g","r","a","m",".","c","o","m">> >>

\* any(x in url.lower() for x in words)
AnyIn(words, url) == \E k \in 1..Len(words) : Contains(Lower(url), words[k])

\* the first loop: the first domain of domain_patterns that is in the
\* lower-cased sender and whose pattern has a match gives matches[0]
RECURSIVE PlatformUrl(_, _, _)
PlatformUrl(k, content, sender_email) ==
    IF k > Len(domain_patterns) THEN <<>>
    ELSE LET m == Search(domain_patterns[k][2], content, FALSE)
         IN IF Contains(Lower(sender_email), domain_patterns[k][1]) /\ m.ok
            THEN Group0(content, m)
            ELSE PlatformUrl(k + 1, content, sender_email)

\* the second loop: matches[0] of the first newsletter pattern with a match
RECURSIVE NewsletterUrl(_, _)
NewsletterUrl(k, content) ==
    IF k > Len(newsletter_patterns) THEN <<>>
    ELSE LET m == Search(newsletter_patterns[k], content, FALSE)
         IN IF m.ok THEN Group0(content, m) ELSE NewsletterUrl(k + 1, content)

\* the third loop: the link of the first match of the first browser pattern
\* whose link is not on the skip list
RECURSIVE BrowserUrl(_, _)
BrowserUrl(k, content_html) ==
    IF k > Len(browser_patterns) THEN <<>>
    ELSE LET m == Search(browser_patterns[k], content_html, TRUE)
         IN IF m.ok /\ ~AnyIn(primary_skip_domains, Group1(content_html, m))
            THEN Group1(content_html, m)
            ELSE BrowserUrl(k + 1, content_html)

\* the last loop: the first URL that is neither skipped nor social
RECURSIVE FallbackUrl(_, _)
FallbackUrl(k, urls) ==
    IF k > Len(urls) THEN <<>>
    ELSE IF ~AnyIn(primary_skip_domains, urls[k]) /\ ~AnyIn(social_domains, urls[k])
         THEN urls[k]
         ELSE FallbackUrl(k + 1, urls)

\* the cascade, run on a body that is not empty
PrimaryUrlOf(content_html, content_plain, sender_email) ==
    LET content   == PyOr(content_html, content_plain)
        canonical == Search(CanonicalPattern, content_html, TRUE)
        platform  == PlatformUrl(1, content, sender_email)
        generic   == NewsletterUrl(1, content)
        browser   == BrowserUrl(1, content_html)
    IN IF content_html # <<>> /\ canonical.ok THEN Group1(content_html, canonical)
       ELSE IF platform # <<>> THEN platform
       ELSE IF generic # <<>> THEN generic
       ELSE IF content_html # <<>> /\ browser # <<>> THEN browser
       ELSE FallbackUrl(1, FindAll(UrlPattern, content, FALSE))

\* extract_primary_url answering an empty body with the sender
ExtractPrimaryUrlSenderDefault(content_html, content_plain, sender_email) ==
    IF PyOr(content_html, content_plain) = <<>> THEN sender_email
    ELSE PrimaryUrlOf(content_html, content_plain, sender_email)

ExtractPrimaryUrl(content_html, content_plain, sender_email) ==
    IF PyOr(content_html, content_plain) = <<>> THEN <<>>
    ELSE PrimaryUrlOf(content_html, content_plain, sender_email)

(***************************************************************************)
(* determine_newsletter_name                                               *)
(***************************************************************************)
\* the dict mapping, in insertion order
mapping ==
    << << <<"s","u","b","s","t","a","c","k",".","c","o","m">>, <<"S","u","b","s","t","a","c","k"," ","N","e","w","s","l","e","t","t","e","r">> >>,
       << <<"m","e","d","i","u","m",".","c","o","m">>, <<"M","e","d","i","u","m">> >>,
       << <<"t","e","c","h","c","r","u","n","c","h",".","c","o","m">>, <<"T","e","c","h","C","r","u","n","c","h">> >>,
       << <<"h","a","c","k","e","r","n","e","w","s","l","e","t","t","e","r",".","c","o","m">>, <<"H","a","c","k","e","r"," ","N","e","w","s">> >>,
       << <<"m","o","r","n","i","n","g","b","r","e","w",".","c","o","m">>, <<"M","o","r","n","i","n","g"," ","B","r","e","w">> >>,
       << <<"t","h","e","h","u","s","t","l","e",".","c","o">>, <<"T","h","e"," ","H","u","s","t","l","e">> >> >>

\* the calls of determine_newsletter_name made so far in this process, each
\* with its arguments and the name it returned
VARIABLE calls

\* the entries of mapping whose domain is in the lower-cased sender
MappingHits(sender_email) ==
    {k \in 1..Len(mapping) : Contains(Lower(sender_email), mapping[k][1])}

\* a variant that keeps the last sender's name and answers with it while
\* the sender stays the same
DetermineNewsletterNameLastSender(sender_email, subject) ==
    LET hits == MappingHits(sender_email)
        parts == Split(sender_email, <<"@">>)
    IN IF calls # <<>> /\ calls[Len(calls)].sender_email = sender_email
       THEN calls[Len(calls)].name
       ELSE IF hits # {} THEN mapping[CHOOSE k \in hits : \A j \in hits : k <= j][2]
       ELSE IF Contains(Lower(subject), <<"n","e","w","s","l","e","t","t","e","r">>)
            THEN Strip(Split(subject, <<"n","e","w","s","l","e","t","t","e","r">>)[1])
       ELSE IF Len(parts) >= 2
            THEN Title(Replace(Replace(parts[2], <<".","c","o","m">>, <<>>), <<".">>, <<" ">>))
       ELSE sender_email

DetermineNewsletterName(sender_email, subject) ==
    LET hits == MappingHits(sender_email)
        parts == Split(sender_email, <<"@">>)
    IN IF hits # {} THEN mapping[CHOOSE k \in hits : \A j \in hits : k <= j][2]
       ELSE IF Contains(Lower(subject), <<"n","e","w","s","l","e","t","t","e","r">>)
            THEN Strip(Split(subject, <<"n","e","w","s","l","e","t","t","e","r">>)[1])
       ELSE IF Len(parts) >= 2   \* parts[1] of the code; IndexError is caught
            THEN Title(Replace(Replace(parts[2], <<".","c","o","m">>, <<>>), <<".">>, <<" ">>))
       ELSE sender_email

(***************************************************************************)
(* The inputs the functions are applied to.                                *)
(***************************************************************************)
\* all strings of up to n characters of the set
StringsOver(chars, n) == UNION {[1..m -> chars] : m \in 0..n}

\* "sep".join(parts)
RECURSIVE Join(_, _)
Join(parts, sep) ==
    IF parts = <<>> THEN <<>>
    ELSE IF Len(parts) = 1 THEN parts[1]
    ELSE parts[1] \o sep \o Join(Tail(parts), sep)

\* the texts made of up to n of the pieces, joined by blanks
TextsOf(pieces, n) ==
    {Join([j \in 1..Len(ix) |-> pieces[ix[j]]], <<" ">>) : ix \in StringsOver(1..Len(pieces), n)}

MaxSenderLen == 4
MaxParts == 2
MaxUrls == 11

\* From headers: every short string over the characters parse_sender looks
\* at, and some headers as mail carries them
SenderHeaders ==
    StringsOver({"n", "<", ">", " ", "\""}, MaxSenderLen)
    \cup { <<"T","e","c","h"," ","D","i","g","e","s","t"," ","<","n","e","w","s","@","t","e","c","h","d","i","g","e","s","t",".","s","u","b","s","t","a","c","k",".","c","o","m",">">>,
           <<"\"","T","e","c","h"," ","D","i","g","e","s","t","\""," ","<","n","e","w","s","@","t","e","c","h","d","i","g","e","s","t",".","s","u","b","s","t","a","c","k",".","c","o","m",">">>,
           <<" ","\"","A"," ","B","\""," ","<"," ","a","@","b",".","c","o"," ",">"," ","x">>,
           <<"T","h","e"," ","E","d","i","t","o","r","s"," ","<","e","d","@","x",".","o","r","g",">"," ","<","e","d","2","@","x",".","o","r","g",">">>,
           <<"n","e","w","s","@","t","e","c","h","d","i","g","e","s","t",".","s","u","b","s","t","a","c","k",".","c","o","m">> }

SenderEmails ==
    { <<"n","e","w","s","@","t","e","c","h","d","i","g","e","s","t",".","s","u","b","s","t","a","c","k",".","c","o","m">>, <<"m","e","d","i","u","m",".","c","o","m","@","x",".","o","r","g">>, <<"a","@","x",".","o","r","g">>, <<"j","o","e","@","T","e","c","h","C","r","u","n","c","h",".","c","o","m">>,
      <<"i","n","f","o","@","n","e","w","s",".","e","x","a","m","p","l","e",".","c","o","m">>, <<"e","d","@","m","y",".","c","o","m","p","a","n","y",".","o","r","g">>, <<"j","o","e","@","b",".","c","o","m",".","a","u">>, <<"n","o","-","a","t","-","s","i","g","n">>, <<>> }

Subjects ==
    { <<"A","I"," ","i","n"," ","J","u","l","y">>, <<"W","e","e","k","l","y"," ","N","e","w","s","l","e","t","t","e","r"," ","#","5">>, <<"w","e","e","k","l","y"," ","n","e","w","s","l","e","t","t","e","r"," ","5">>, <<"T","h","e"," ","n","e","w","s","l","e","t","t","e","r">>,
      <<"N","E","W","S","L","E","T","T","E","R">>, <<"n","e","w","s","l","e","t","t","e","r"," ","o","f"," ","t","h","e"," ","w","e","e","k">>, <<>> }

\* pieces of message bodies that hold links
UrlPieces ==
    << <<"h","t","t","p",":","/","/","e",".","o","r","g","/","1">>,
       <<"h","t","t","p","s",":","/","/","e",".","o","r","g","/","U","N","S","U","B","S","C","R","I","B","E">>,
       <<"h","t","t","p",":","/","/","t","r","a","c","k","i","n","g",".","e",".","o","r","g","/","t","?","i","d","=","1">>,
       <<"s","e","e"," ","h","t","t","p","s",":","/","/","a",".","i","o","/","x","[","1","]"," ","a","n","d"," ","h","t","t","p",":","/","/">>,
       <<"<","a"," ","h","r","e","f","=","\"","h","t","t","p","s",":","/","/","v",".","c","o","/","w","\"",">","p","i","x","e","l","<","/","a",">">>,
       <<"h","t","t","p","s",":","/","/","o","p","e","n",".","s","u","b","s","t","a","c","k",".","c","o","m","/","p","/","q">> >>

\* the link http://u.io/<letter>, one per letter
NthUrl(n) == <<"h","t","t","p",":","/","/","u",".","i","o","/">> \o << LowerChars[n] >>

\* a body that lists the first n of them, one per line, and an unsubscribe link
UrlList(n) ==
    Join([j \in 1..n |-> NthUrl(j)], <<"\n">>) \o <<"\n","h","t","t","p","s",":","/","/","u",".","i","o","/","U","n","s","u","b","s","c","r","i","b","e">>

UrlBodies == TextsOf(UrlPieces, MaxParts) \cup {UrlList(n) : n \in (MaxUrls - 2)..MaxUrls}

\* pieces of HTML bodies for the primary-URL cascade
HtmlPieces ==
    << <<"<","l","i","n","k"," ","r","e","l","=","\"","c","a","n","o","n","i","c","a","l","\""," ","h","r","e","f","=","\"","h","t","t","p","s",":","/","/","c",".","i","o","/","a","\"",">">>,
       <<"<","l","i","n","k"," ","h","r","e","f","=","\"","h","t","t","p","s",":","/","/","c",".","i","o","/","b","\""," ","r","e","l","=","\"","c","a","n","o","n","i","c","a","l","\"",">">>,
       <<"h","t","t","p","s",":","/","/","n",".","s","u","b","s","t","a","c","k",".","c","o","m","/","p","/","p","i","x","e","l","?","u","=","1">>,
       <<"h","t","t","p","s",":","/","/","m","e","d","i","u","m",".","c","o","m","/","q">>,
       <<"h","t","t","p","s",":","/","/","b",".","g","h","o","s","t",".","i","o","/","z">>,
       <<"<","a"," ","h","r","e","f","=","\"","/","h","o","m","e","\"",">","H","o","m","e","<","/","a",">">>,
       <<"<","a"," ","h","r","e","f","=","\"","h","t","t","p","s",":","/","/","v",".","c","o","/","w","\"",">","V","i","e","w"," ","i","n"," ","b","r","o","w","s","e","r","<","/","a",">">>,
       <<"<","a"," ","h","r","e","f","=","\"","h","t","t","p","s",":","/","/","m","a","i","l","c","h","i",".","m","p","/","e","\"",">","V","i","e","w"," ","t","h","i","s"," ","i","n"," ","y","o","u","r"," ","B","R","O","W","S","E","R","<","/","a",">">>,
       <<"h","t","t","p",":","/","/","e",".","o","r","g","/","1">>,
       <<"h","t","t","p","s",":","/","/","t","w","i","t","t","e","r",".","c","o","m","/","e">>,
       <<"h","t","t","p","s",":","/","/","e",".","o","r","g","/","U","n","s","u","b","s","c","r","i","b","e">> >>

HtmlBodies == TextsOf(HtmlPieces, MaxParts)

PlainBodies == { <<"R","e","a","d"," ","h","t","t","p","s",":","/","/","n",".","s","u","b","s","t","a","c","k",".","c","o","m","/","p","/","t"," ","n","o","w">>, <<"F","o","l","l","o","w"," ","h","t","t","p","s",":","/","/","t","w","i","t","t","e","r",".","c","o","m","/","e"," ","h","t","t","p",":","/","/","e",".","o","r","g","/","2">> }

PrimarySenders == { <<"n","e","w","s","@","n",".","s","u","b","s","t","a","c","k",".","c","o","m">>, <<"m","e","d","i","u","m",".","c","o","m","@","x",".","o","r","g">>, <<"a","@","x",".","o","r","g">> }

(***************************************************************************)
(* One call of one of the functions: Init draws the function and its       *)
(* arguments, the function's action computes what it returns.              *)
(***************************************************************************)
VARIABLES
    op,             \* the function called
    sender,         \* parse_sender's argument
    sender_email,   \* argument of extract_primary_url and determine_newsletter_name
    subject,        \* argument of determine_newsletter_name
    content_html,   \* the HTML body
    content_plain,  \* the plain body
    pc,             \* "call" before the function has run, "return" after
    result          \* what it returned

\* the Gmail message handed to a message parser
VARIABLE gmail_message

\* fetching the messages of a listing and storing their records
VARIABLES
    mailbox,        \* the messages the query matches, in listing order
    message_ids,    \* the ids the listing returned
    outcomes,       \* how the get of each id handled so far ended
    newsletters,    \* the records collected so far
    marked,         \* the ids whose UNREAD label was removed
    save_json,      \* full_pipeline's argument
    skip_existing,  \* argument of full_pipeline and store_newsletters
    json_saved,     \* the lists of records written to JSON files
    store_docs,     \* message_id of each document in the vector store
    checks,         \* how the existence check of each record handled so far ended
    to_process,     \* newsletters_to_process
    skipped_count,  \* skipped_count
    runs            \* the earlier calls of store_newsletters on the batch: what each
                    \* returned and the store it left

pipeVars == << mailbox, message_ids, outcomes, newsletters, marked, save_json, skip_existing,
               json_saved, store_docs, checks, to_process, skipped_count, runs >>

\* the query API
VARIABLES
    requests,       \* the GET /api/newsletter-context requests being handled
    _retriever,     \* rag_client's global instance, 0 for None
    instances       \* how many NewsletterRetriever were constructed

apiVars == << requests, _retriever, instances >>

vars == << op, sender, sender_email, subject, content_html, content_plain, pc, result, calls,
           gmail_message, pipeVars, apiVars >>

\* no call of determine_newsletter_name is on record
NamesIdle == calls = <<>>

\* no message is being parsed
ParseIdle == gmail_message = <<>>

\* no listing is being fetched or stored
PipelineIdle ==
    /\ mailbox = <<>> /\ message_ids = <<>> /\ outcomes = <<>> /\ newsletters = <<>>
    /\ marked = {} /\ save_json = FALSE /\ skip_existing = FALSE /\ json_saved = <<>>
    /\ store_docs = <<>> /\ checks = <<>> /\ to_process = <<>> /\ skipped_count = 0
    /\ runs = <<>>

\* no request was received
ApiIdle == requests = <<>> /\ _retriever = 0 /\ instances = 0

UrlExtractors == {"extract_urls", "_extract_urls", "legacy_extract_urls"}

Init ==
    /\ pc = "call"
    /\ result = <<>>
    /\ NamesIdle /\ ParseIdle /\ PipelineIdle /\ ApiIdle
    /\ \/ /\ op = "parse_sender"
          /\ sender \in SenderHeaders
          /\ sender_email = <<>> /\ subject = <<>>
          /\ content_html = <<>> /\ content_plain = <<>>
       \/ /\ op \in UrlExtractors
          /\ \/ content_html \in UrlBodies /\ content_plain = <<>>
             \/ content_html = <<>> /\ content_plain \in PlainBodies
          /\ sender = <<>> /\ sender_email = <<>> /\ subject = <<>>
       \/ /\ op = "extract_primary_url"
          /\ \/ content_html \in HtmlBodies /\ content_plain = <<>>
             \/ content_html = <<>> /\ content_plain \in PlainBodies
             \/ content_html = HtmlPieces[9] /\ content_plain \in PlainBodies
          /\ sender_email \in PrimarySenders
          /\ sender = <<>> /\ subject = <<>>
       \/ /\ op = "determine_newsletter_name"
          /\ sender_email \in SenderEmails
          /\ subject \in Subjects
          /\ sender = <<>> /\ content_html = <<>> /\ content_plain = <<>>

Return(value) ==
    /\ pc' = "return"
    /\ result' = value
    /\ UNCHANGED << op, sender, sender_email, subject, content_html, content_plain >>
    /\ UNCHANGED << calls, gmail_message, pipeVars, apiVars >>

ParseSenderCall ==
    /\ pc = "call" /\ op = "parse_sender"
    /\ Return(ParseSender(sender))

\* article_urls = extract_urls(content_html or content_plain)
ExtractUrlsCall ==
    /\ pc = "call" /\ op = "extract_urls"
    /\ \E r \in ExtractUrls(PyOr(content_html, content_plain)) : Return(r)

FetcherExtractUrlsCall ==
    /\ pc = "call" /\ op = "_extract_urls"
    /\ \E r \in FetcherExtractUrls(PyOr(content_html, content_plain)) : Return(r)

LegacyExtractUrlsCall ==
    /\ pc = "call" /\ op = "legacy_extract_urls"
    /\ \E r \in LegacyExtractUrls(PyOr(content_html, content_plain)) : Return(r)

ExtractPrimaryUrlCall ==
    /\ pc = "call" /\ op = "extract_primary_url"
    /\ Return(ExtractPrimaryUrl(content_html, content_plain, sender_email))

DetermineNewsletterNameCall ==
    /\ pc = "call" /\ op = "determine_newsletter_name"
    /\ Return(DetermineNewsletterName(sender_email, subject))

Next ==
    \/ ParseSenderCall
    \/ ExtractUrlsCall
    \/ FetcherExtractUrlsCall
    \/ LegacyExtractUrlsCall
    \/ ExtractPrimaryUrlCall
    \/ DetermineNewsletterNameCall

Spec == Init /\ [][Next]_vars

(***************************************************************************)
(* Properties.  They are stated on what a call received and returned, in   *)
(* terms of positions in the strings rather than of the operations the     *)
(* functions are written with.                                             *)
(***************************************************************************)
Returned(f) == pc = "return" /\ op = f

Chars(s) == {s[i] : i \in 1..Len(s)}
Elems(q) == {q[i] : i \in 1..Len(q)}
NoDuplicates(q) == \A i, j \in 1..Len(q) : i # j => q[i] # q[j]

\* the least element of a non-empty set of numbers
Least(S) == CHOOSE x \in S : \A y \in S : x <= y
Greatest(S) == CHOOSE x \in S : \A y \in S : x >= y

\* positions of the characters of a set in s
Positions(s, chars) == {i \in 1..Len(s) : s[i] \in chars}

\* word occurs in s when letter case is ignored
HasWord(s, word) ==
    \E i \in 1..Len(s) :
        \A j \in 1..Len(word) : i + j - 1 <= Len(s) /\ LowerChar(s[i + j - 1]) = word[j]

\* where word first occurs in s when letter case is ignored
WordAt(s, word) ==
    Least({i \in 1..Len(s) :
        \A j \in 1..Len(word) : i + j - 1 <= Len(s) /\ LowerChar(s[i + j - 1]) = word[j]})

SkipWords == { <<"u","n","s","u","b","s","c","r","i","b","e">>, <<"t","r","a","c","k","i","n","g">>, <<"p","i","x","e","l">>, <<"o","p","e","n",".","s","u","b","s","t","a","c","k",".","c","o","m">> }

---------------------------------------------------------------------------
\* the characters a link ends at: those the URL pattern's class excludes
LinkEnders ==
    Whitespace \cup {"<", ">", "\"", "{", "|", "}", "\\", "^", Backquote, "[", "]"}

\* the length of the scheme that starts at position i, 0 if none does
SchemeAt(s, i) ==
    IF OccursAt(<<"h","t","t","p",":","/","/">>, s, i) THEN 7
    ELSE IF OccursAt(<<"h","t","t","p","s",":","/","/">>, s, i) THEN 8
    ELSE 0

\* a link starts at i: a scheme followed by at least one link character
LinkStart(s, i) ==
    /\ SchemeAt(s, i) > 0
    /\ i + SchemeAt(s, i) <= Len(s)
    /\ s[i + SchemeAt(s, i)] \notin LinkEnders

\* the last position of the link that starts at i
LinkEnd(s, i) ==
    LET stops == {p \in (i + SchemeAt(s, i))..Len(s) : s[p] \in LinkEnders}
    IN IF stops = {} THEN Len(s) ELSE Least(stops) - 1

\* the links of s: those that do not start inside an earlier link
Links(s) ==
    {SubSeq(s, i, LinkEnd(s, i)) :
        i \in {p \in 1..Len(s) :
                 /\ LinkStart(s, p)
                 /\ ~\E q \in 1..(p - 1) : LinkStart(s, q) /\ LinkEnd(s, q) >= p}}

\* the candidate set of the general URL extractor
Candidates(s) == {u \in Links(s) : \A w \in SkipWords : ~HasWord(u, w)}

\* the body extract_urls is given
Body == PyOr(content_html, content_plain)

\* all the values of group 1 that re.findall(pattern, s) returns
RECURSIVE AllGroup1From(_, _, _, _)
AllGroup1From(items, s, from, ic) ==
    LET m == SearchFrom(items, s, from, ic)
    IN IF ~m.ok THEN {}
       ELSE {Group1(s, m)} \cup AllGroup1From(items, s, IF m.e > m.b THEN m.e ELSE m.e + 1, ic)

\* the hrefs of the link tags marked rel=canonical, whichever attribute
\* comes first
CanonicalHrefs(html) ==
    AllGroup1From(<< Lit(<<"<","l","i","n","k">>), NotPlus({">"}), Lit(<<"r","e","l","=">>), One(Quotes), Lit(<<"c","a","n","o","n","i","c","a","l">>),
                     One(Quotes), NotPlus({">"}), Lit(<<"h","r","e","f","=">>), One(Quotes),
                     Open, NotPlus(Quotes), Close, One(Quotes) >>, html, 1, TRUE)
    \cup
    AllGroup1From(<< Lit(<<"<","l","i","n","k">>), NotPlus({">"}), Lit(<<"h","r","e","f","=">>), One(Quotes),
                     Open, NotPlus(Quotes), Close, One(Quotes), NotPlus({">"}),
                     Lit(<<"r","e","l","=">>), One(Quotes), Lit(<<"c","a","n","o","n","i","c","a","l">>), One(Quotes) >>, html, 1, TRUE)

---------------------------------------------------------------------------
\* C1: a non-empty primary URL is the href of a canonical link tag of the
\* HTML body or one of the candidates of the general URL extractor for the
\* same content (a link without unsubscribe, tracking or pixel in it).
C1_PrimaryFromCandidates ==
    (Returned("extract_primary_url") /\ result # <<>>) =>
        \/ result \in CanonicalHrefs(content_html)
        \/ result \in {u \in Links(Body) :
                         \A w \in { <<"u","n","s","u","b","s","c","r","i","b","e">>, <<"t","r","a","c","k","i","n","g">>, <<"p","i","x","e","l">> } : ~HasWord(u, w)}

---------------------------------------------------------------------------
\* C2: every copy of extract_urls returns at most 10 URLs, none of which
\* contains a skip-list substring in any letter case.
C2_AtMostTenNoneSkipped ==
    (pc = "return" /\ op \in UrlExtractors) =>
        /\ Len(result) <= 10
        /\ \A i \in 1..Len(result) : \A w \in SkipWords : ~HasWord(result[i], w)

\* a body with more than ten links and an unsubscribe link in capitals,
\* answered with ten links
C2_Witness ==
    /\ Returned("extract_urls")
    /\ Cardinality(Links(Body)) > 10
    /\ \E u \in Links(Body) : HasWord(u, <<"u","n","s","u","b","s","c","r","i","b","e">>) /\ ~Contains(u, <<"u","n","s","u","b","s","c","r","i","b","e">>)
    /\ Len(result) = 10

---------------------------------------------------------------------------
\* C3: extract_urls (newsletter_interface and the fetcher's _extract_urls)
\* returns links of the body only, each at most once, none on the skip
\* list: all of the distinct unskipped links when they are at most 10, and
\* exactly 10 of them when they are more.
C3_AllLinksOnce ==
    (pc = "return" /\ op \in {"extract_urls", "_extract_urls"}) =>
        /\ NoDuplicates(result)
        /\ Elems(result) \subseteq Candidates(Body)
        /\ Cardinality(Candidates(Body)) <= 10 => Elems(result) = Candidates(Body)
        /\ Cardinality(Candidates(Body)) > 10 => Len(result) = 10

\* ten unskipped links and a skipped one in the body, all ten returned
C3_Witness ==
    /\ Returned("_extract_urls")
    /\ Cardinality(Candidates(Body)) = 10
    /\ Cardinality(Links(Body)) = 11
    /\ Elems(result) = Candidates(Body)

---------------------------------------------------------------------------
\* C4: when the HTML body holds a canonical link tag, extract_primary_url
\* returns the href of a canonical link tag, whatever else the body holds.
C4_CanonicalWins ==
    (Returned("extract_primary_url") /\ CanonicalHrefs(content_html) # {}) =>
        result \in CanonicalHrefs(content_html)

---------------------------------------------------------------------------
\* the domain of an address: what follows the first @
DomainOf(address) ==
    LET ats == Positions(address, {"@"})
    IN IF ats = {} THEN <<>> ELSE Slice(address, Least(ats) + 1, Len(address))

\* stage 2 as the claim states it: the patterns are chosen by the sender's
\* domain
RECURSIVE PlatformUrlByDomain(_, _, _)
PlatformUrlByDomain(k, content, address) ==
    IF k > Len(domain_patterns) THEN <<>>
    ELSE LET m == Search(domain_patterns[k][2], content, FALSE)
         IN IF HasWord(DomainOf(address), domain_patterns[k][1]) /\ m.ok
            THEN Group0(content, m)
            ELSE PlatformUrlByDomain(k + 1, content, address)

\* [^<]*?
TextLazy == [k |-> "rep", neg |-> TRUE, set |-> {"<"}, min |-> 0, many |-> TRUE, lazy |-> TRUE]

\* stage 4 as the claim states it: the links of the anchors whose own text
\* reads view in browser, read online, ..., and that are not on the skip list
BrowserLinks(html) ==
    {u \in AllGroup1From(
              << Lit(<<"<","a">>), NotPlus({">"}), Lit(<<"h","r","e","f","=">>), One(Quotes),
                 Open, NotPlus(Quotes), Close, One(Quotes), NotStar({">"}), Lit(<<">">>),
                 TextLazy,
                 Alt(<< << Lit(<<"v","i","e","w">>), TextLazy, Lit(<<"b","r","o","w","s","e","r">>) >>,
                        << Lit(<<"r","e","a","d">>), TextLazy, Lit(<<"o","n","l","i","n","e">>) >>,
                        << Lit(<<"v","i","e","w">>), TextLazy, Lit(<<"w","e","b">>) >>,
                        << Lit(<<"o","p","e","n">>), TextLazy, Lit(<<"b","r","o","w","s","e","r">>) >> >>) >>,
              html, 1, TRUE) :
        ~AnyIn(primary_skip_domains, u)}

\* C5: without a canonical link tag extract_primary_url returns the
\* candidate of the first stage that has one: the platform pattern of the
\* sender's domain, the generic platform patterns, a view-in-browser
\* anchor's link, the first link that is neither skipped nor social; and the
\* empty string exactly when no stage has a candidate.
C5_FirstStageWins ==
    (Returned("extract_primary_url") /\ CanonicalHrefs(content_html) = {}) =>
        LET platform == PlatformUrlByDomain(1, Body, sender_email)
            generic  == NewsletterUrl(1, Body)
            links    == BrowserLinks(content_html)
            fallback == FallbackUrl(1, FindAll(UrlPattern, Body, FALSE))
        IN IF platform # <<>> THEN result = platform
           ELSE IF generic # <<>> THEN result = generic
           ELSE IF links # {} THEN result \in links
           ELSE result = fallback

---------------------------------------------------------------------------
\* C6: with an empty HTML body and an empty plain body extract_urls
\* returns the empty list and extract_primary_url the empty string.
C6_EmptyBodies ==
    (pc = "return" /\ content_html = <<>> /\ content_plain = <<>>) =>
        /\ op \in UrlExtractors => result = <<>>
        /\ op = "extract_primary_url" => result = <<>>

C6_Witness ==
    /\ Returned("extract_primary_url")
    /\ content_html = <<>> /\ content_plain = <<>>
    /\ sender_email # <<>>
    /\ result = <<>>

---------------------------------------------------------------------------
HasBoth(s) == "<" \in Chars(s) /\ ">" \in Chars(s)

\* the first <
Lt(s) == Least(Positions(s, {"<"}))

\* the name: the text before the first <, without the whitespace around it
\* and then without the double quotes around it
NameOf(s) == StripSet(StripSet(Slice(s, 1, Lt(s) - 1), Whitespace), {"\""})

\* C7 as stated: name is the text before the <, trimmed and unquoted; email
\* is the trimmed text between the < and the > that closes it (read as the
\* first < or as the last < before that >).
C7_InsideTheBrackets ==
    (Returned("parse_sender") /\ HasBoth(sender)) =>
        /\ result[1] = NameOf(sender)
        /\ LET closers == {p \in Positions(sender, {">"}) : p > Lt(sender)}
           IN closers # {} =>
                LET gt    == Least(closers)
                    inner == Greatest({p \in Positions(sender, {"<"}) : p < gt})
                IN result[2] \in { Strip(Slice(sender, Lt(sender) + 1, gt - 1)),
                                   Strip(Slice(sender, inner + 1, gt - 1)) }

\* C7 amended: for every sender with both < and >, name is the text before
\* the first <, trimmed and then unquoted, and email is the trimmed text
\* from the first < up to the next < or >, or to the end when none follows.
C7_UpToNextBracket ==
    (Returned("parse_sender") /\ HasBoth(sender)) =>
        /\ result[1] = NameOf(sender)
        /\ LET after == {p \in Positions(sender, {"<", ">"}) : p > Lt(sender)}
               stop  == IF after = {} THEN Len(sender) + 1 ELSE Least(after)
           IN result[2] = Strip(Slice(sender, Lt(sender) + 1, stop - 1))

\* a quoted name and an address with blanks inside the brackets
C7_Witness ==
    /\ Returned("parse_sender")
    /\ sender = <<" ","\"","A"," ","B","\""," ","<"," ","a","@","b",".","c","o"," ",">"," ","x">>
    /\ result = << <<"A"," ","B">>, <<"a","@","b",".","c","o">> >>

---------------------------------------------------------------------------
\* C8: a sender without both < and > comes back as (s, s), untrimmed.
C8_RawPassThrough ==
    (Returned("parse_sender") /\ ~HasBoth(sender)) => result = << sender, sender >>

\* only one of the brackets, and blanks around
C8_Witness ==
    /\ Returned("parse_sender")
    /\ "<" \in Chars(sender) /\ ">" \notin Chars(sender)
    /\ Len(sender) > 1 /\ sender[1] = " " /\ sender[Len(sender)] = " "
    /\ result = << sender, sender >>

---------------------------------------------------------------------------
MappedNames == {mapping[k][2] : k \in 1..Len(mapping)}

\* the entries whose provider domain the sender's domain matches
DomainHits(address) ==
    {k \in 1..Len(mapping) : HasWord(DomainOf(address), mapping[k][1])}

\* C9: determine_newsletter_name answers from the mapping exactly when the
\* sender's domain, the part after @, matches a mapped provider domain.
C9_MappingByDomain ==
    Returned("determine_newsletter_name") =>
        /\ DomainHits(sender_email) # {} =>
              result \in {mapping[k][2] : k \in DomainHits(sender_email)}
        /\ DomainHits(sender_email) = {} => result \notin MappedNames

---------------------------------------------------------------------------
\* C10: with no mapping entry for the sender and the word newsletter in the
\* subject in any letter case, the name is the trimmed text of the subject
\* before that word.
C10_TextBeforeNewsletter ==
    (/\ Returned("determine_newsletter_name")
     /\ MappingHits(sender_email) = {}
     /\ HasWord(subject, <<"n","e","w","s","l","e","t","t","e","r">>)) =>
        result = Strip(Slice(subject, 1, WordAt(subject, <<"n","e","w","s","l","e","t","t","e","r">>) - 1))

---------------------------------------------------------------------------
\* s without the suffix, when it ends with it
DropSuffix(s, suffix) ==
    IF Len(s) >= Len(suffix) /\ OccursAt(suffix, s, Len(s) - Len(suffix) + 1)
    THEN Slice(s, 1, Len(s) - Len(suffix))
    ELSE s

\* s with every dot turned into a blank
DotsToSpaces(s) == [i \in 1..Len(s) |-> IF s[i] = "." THEN " " ELSE s[i]]

\* C11: when neither the mapping nor the subject rule applies, the name is
\* the sender's domain (the text after @) without its .com suffix, its
\* other dots turned into blanks, title-cased; a sender without @ comes
\* back unchanged.
C11_NameFromDomain ==
    (/\ Returned("determine_newsletter_name")
     /\ MappingHits(sender_email) = {}
     /\ ~HasWord(subject, <<"n","e","w","s","l","e","t","t","e","r">>)) =>
        IF "@" \in Chars(sender_email)
        THEN result = Title(DotsToSpaces(DropSuffix(DomainOf(sender_email), <<".","c","o","m">>)))
        ELSE result = sender_email

(***************************************************************************)
(* determine_newsletter_name called once for each message of a listing:    *)
(* the process resolves one name after the other.                          *)
(***************************************************************************)
MaxCalls == 4

RepeatSenders == { <<"a","@","x",".","o","r","g">>, <<"n","e","w","s","@","t","e","c","h","d","i","g","e","s","t",".","s","u","b","s","t","a","c","k",".","c","o","m">>, <<"n","o","-","a","t","-","s","i","g","n">> }
RepeatSubjects == { <<"A","I"," ","i","n"," ","J","u","l","y">>, <<"w","e","e","k","l","y"," ","n","e","w","s","l","e","t","t","e","r"," ","5">>, <<"N","E","W","S","L","E","T","T","E","R">> }

\* the state of the single-call harness while names are resolved
CallIdle ==
    /\ op = "determine_newsletter_name" /\ pc = "call" /\ result = <<>>
    /\ sender = <<>> /\ sender_email = <<>> /\ subject = <<>>
    /\ content_html = <<>> /\ content_plain = <<>>

callVars == << op, sender, sender_email, subject, content_html, content_plain, pc, result >>

InitNames == CallIdle /\ NamesIdle /\ ParseIdle /\ PipelineIdle /\ ApiIdle

\* newsletter_name = determine_newsletter_name(sender_email, subject), for
\* the next message
DetermineNewsletterNameAgain ==
    /\ Len(calls) < MaxCalls
    /\ \E e \in RepeatSenders, s \in RepeatSubjects :
          calls' = Append(calls, [sender_email |-> e, subject |-> s,
                                  name |-> DetermineNewsletterName(e, s)])
    /\ UNCHANGED << callVars, gmail_message, pipeVars, apiVars >>

NextNames == DetermineNewsletterNameAgain

SpecNames == InitNames /\ [][NextNames]_vars

---------------------------------------------------------------------------
Get(d, key, default) == IF key \in DOMAIN d THEN d[key] ELSE default

DigitChars == << "0", "1", "2", "3", "4", "5", "6", "7", "8", "9" >>

\* int(s) of a str works for a string of digits, else ValueError
IsInt(s) == s # <<>> /\ \A i \in 1..Len(s) : IndexIn(s[i], DigitChars) # 0

RECURSIVE IntOf(_)
IntOf(s) ==
    IF s = <<>> THEN 0
    ELSE 10 * IntOf(SubSeq(s, 1, Len(s) - 1)) + (IndexIn(s[Len(s)], DigitChars) - 1)

\* int(raw_message.get('internalDate', 0)) raises
BadInternalDate(message) ==
    "internalDate" \in DOMAIN message /\ ~IsInt(message["internalDate"])

\* int(raw_message.get('internalDate', 0)) // 1000
TimestampOfMillis(message) ==
    IF "internalDate" \in DOMAIN message THEN IntOf(message["internalDate"]) ELSE 0

TimestampOf(message) ==
    IF "internalDate" \in DOMAIN message THEN IntOf(message["internalDate"]) \div 1000 ELSE 0

\* the bodies of the parts of one content type, one after the other; a part
\* whose charset is unknown raises LookupError, which is caught and the
\* part left out
RECURSIVE BodiesOf(_, _)
BodiesOf(parts, type) ==
    IF parts = <<>> THEN <<>>
    ELSE (IF parts[1].type = type /\ parts[1].charset THEN parts[1].body ELSE <<>>)
         \o BodiesOf(Tail(parts), type)

\* The value under 'raw' is [text, padded, bytes]: text says it is a str,
\* padded that base64.urlsafe_b64decode accepts it (binascii.Error on
\* incorrect padding; characters outside the alphabet are dropped, not
\* refused), bytes what BytesParser reads in the decoded bytes: the headers
\* found and the text parts.  BytesParser raises on no input: bytes that are
\* no MIME message come out as a message without headers.
ParseGmailRawMessage(raw_message) ==
    LET placeholder ==
            [ message_id      |-> Get(raw_message, "id", <<"u","n","k","n","o","w","n">>),
              subject         |-> <<"P","a","r","s","e"," ","E","r","r","o","r">>,
              sender          |-> <<"u","n","k","n","o","w","n">>,
              date            |-> <<>>,
              timestamp       |-> 0,
              content_plain   |-> <<>>,
              newsletter_name |-> <<"U","n","k","n","o","w","n">>,
              primary_url     |-> <<>>,
              snippet         |-> Get(raw_message, "snippet", <<>>) ]
        raises ==
            \/ "raw" \notin DOMAIN raw_message          \* KeyError
            \/ ~raw_message["raw"].text                 \* AttributeError
            \/ ~raw_message["raw"].padded               \* binascii.Error
            \/ BadInternalDate(raw_message)             \* ValueError
            \/ "id" \notin DOMAIN raw_message           \* KeyError
    IN IF raises THEN [raised |-> FALSE, email |-> placeholder]
       ELSE LET msg           == raw_message["raw"].bytes
                subject_      == PyOr(Get(msg.headers, "subject", <<>>), <<"N","o"," ","S","u","b","j","e","c","t">>)
                sender_       == PyOr(Get(msg.headers, "from", <<>>), <<"U","n","k","n","o","w","n">>)
                date          == PyOr(Get(msg.headers, "date", <<>>), <<>>)
                sender_email_ == ParseSender(sender_)[2]
                plain         == BodiesOf(msg.parts, "text/plain")
                html          == BodiesOf(msg.parts, "text/html")
            IN [ raised |-> FALSE,
                 email  |->
                    [ message_id      |-> raw_message["id"],
                      subject         |-> subject_,
                      sender          |-> sender_email_,
                      date            |-> date,
                      timestamp       |-> TimestampOf(raw_message),
                      content_plain   |-> plain,
                      newsletter_name |-> DetermineNewsletterName(sender_email_, subject_),
                      primary_url     |-> ExtractPrimaryUrl(html, plain, sender_email_),
                      snippet         |-> Get(raw_message, "snippet", <<>>) ] ]

\* {h['name']: h['value'] for h in headers}.get(name, default): the last
\* header of that name counts
HeaderOf(headers, name, default) ==
    LET at == {i \in 1..Len(headers) : headers[i].name = name}
    IN IF at = {} THEN default
       ELSE headers[CHOOSE i \in at : \A j \in at : j <= i].value

\* part.get('body', {}).get('data', ''), when it is not empty
HasData(part) == "body" \in DOMAIN part /\ "data" \in DOMAIN part["body"]

\* The value under 'data' is [padded, utf8, text]: padded says that
\* base64.urlsafe_b64decode accepts it, utf8 that the decoded bytes are
\* UTF-8, text what they decode to.
\* extract_from_part raises on this part or on one of its subparts
RECURSIVE DecodeFails(_)
DecodeFails(part) ==
    \/ /\ Get(part, "mimeType", "") \in {"text/plain", "text/html"}
       /\ HasData(part)
       /\ ~(part["body"]["data"].padded /\ part["body"]["data"].utf8)
    \/ /\ "parts" \in DOMAIN part
       /\ \E i \in 1..Len(part["parts"]) : DecodeFails(part["parts"][i])

\* what extract_from_part adds to the content of one type: the part's own
\* text, then that of its subparts in order
RECURSIVE ContentOf(_, _)
RECURSIVE ContentOfParts(_, _)
ContentOf(part, type) ==
    (IF Get(part, "mimeType", "") = type /\ HasData(part)
     THEN part["body"]["data"].text ELSE <<>>)
    \o (IF "parts" \in DOMAIN part THEN ContentOfParts(part["parts"], type) ELSE <<>>)

ContentOfParts(parts, type) ==
    IF parts = <<>> THEN <<>>
    ELSE ContentOf(parts[1], type) \o ContentOfParts(Tail(parts), type)

\* [l for l in message.get('labelIds', []) if not l.startswith('Label_')]
RECURSIVE SystemLabels(_)
SystemLabels(labels) ==
    IF labels = <<>> THEN <<>>
    ELSE (IF OccursAt(<<"L","a","b","e","l","_">>, labels[1], 1) THEN <<>> ELSE << labels[1] >>)
         \o SystemLabels(Tail(labels))

\* parse_gmail_message and GmailNewsletterFetcher._parse_message: the same
\* statements around their own extract_urls.  No statement is in a try: the
\* first one that fails ends the call with its exception.  The outcomes are
\* as many as the orders extract_urls can return.
ParseMessageWith(extract, message) ==
    IF "payload" \notin DOMAIN message \/ "headers" \notin DOMAIN message["payload"]
    THEN {[raised |-> TRUE, error |-> "KeyError"]}
    ELSE IF BadInternalDate(message)
    THEN {[raised |-> TRUE, error |-> "ValueError"]}
    ELSE IF DecodeFails(message["payload"])
    THEN {[raised |-> TRUE, error |-> "DecodeError"]}
    ELSE IF "id" \notin DOMAIN message \/ "threadId" \notin DOMAIN message
    THEN {[raised |-> TRUE, error |-> "KeyError"]}
    ELSE LET headers  == message["payload"]["headers"]
             subject_ == HeaderOf(headers, <<"S","u","b","j","e","c","t">>, <<"N","o"," ","S","u","b","j","e","c","t">>)
             sender_  == HeaderOf(headers, <<"F","r","o","m">>, <<"U","n","k","n","o","w","n">>)
             parsed   == ParseSender(sender_)
             plain    == ContentOf(message["payload"], "text/plain")
             html     == ContentOf(message["payload"], "text/html")
             urls     == IF extract = "_extract_urls"
                         THEN FetcherExtractUrls(PyOr(html, plain))
                         ELSE LegacyExtractUrls(PyOr(html, plain))
         IN { [ raised |-> FALSE,
                email  |->
                   [ message_id      |-> message["id"],
                     thread_id       |-> message["threadId"],
                     subject         |-> subject_,
                     sender          |-> parsed[2],
                     sender_name     |-> parsed[1],
                     recipient       |-> HeaderOf(headers, <<"T","o">>, <<"U","n","k","n","o","w","n">>),
                     date            |-> HeaderOf(headers, <<"D","a","t","e">>, <<>>),
                     timestamp       |-> TimestampOf(message),
                     content_plain   |-> plain,
                     content_html    |-> html,
                     newsletter_name |-> DetermineNewsletterName(parsed[2], subject_),
                     article_urls    |-> u,
                     labels          |-> SystemLabels(Get(message, "labelIds", <<>>)),
                     snippet         |-> Get(message, "snippet", <<>>) ] ] : u \in urls }

ParseGmailMessage(message) == ParseMessageWith("legacy_extract_urls", message)

FetcherParseMessage(message) == ParseMessageWith("_extract_urls", message)

(***************************************************************************)
(* The messages the parsers are applied to.                                *)
(***************************************************************************)
\* the dicts that hold, for each key, nothing or one of the key's values
RECURSIVE DictsOf(_, _)
DictsOf(keys, values) ==
    IF keys = <<>> THEN { <<>> }
    ELSE LET rest == DictsOf(Tail(keys), values)
         IN rest \cup { (keys[1] :> v) @@ d : v \in values[keys[1]], d \in rest }

\* what BytesParser reads in the bytes of a message
Letter ==
    [ headers |-> [from |-> <<"T","e","c","h"," ","D","i","g","e","s","t"," ","<","n","e","w","s","@","t","e","c","h","d","i","g","e","s","t",".","s","u","b","s","t","a","c","k",".","c","o","m",">">>, subject |-> <<"H","i">>,
                   date |-> <<"M","o","n",","," ","1"," ","J","u","l"," ","2","0","2","4">>],
      parts   |-> << [type |-> "text/plain", body |-> <<"h","e","l","l","o"," ","h","t","t","p",":","/","/","e",".","o","r","g","/","1">>, charset |-> TRUE] >> ]

HtmlLetter ==
    [ headers |-> [from |-> <<"a","@","x",".","o","r","g">>, subject |-> <<"W","e","e","k","l","y">>],
      parts   |-> << [type |-> "text/plain", body |-> <<"p","l","a","i","n">>, charset |-> TRUE],
                     [type |-> "text/html", body |-> <<"<","a"," ","h","r","e","f","=","\"","h","t","t","p","s",":","/","/","v",".","c","o","/","w","\"",">","V","i","e","w"," ","i","n"," ","b","r","o","w","s","e","r","<","/","a",">">>,
                      charset |-> TRUE],
                     [type |-> "image/png", body |-> <<"p","n","g">>, charset |-> TRUE],
                     [type |-> "text/plain", body |-> <<"m","o","r","e">>, charset |-> FALSE] >> ]

\* bytes that are no MIME message: no header is found, all of it is body
Junk ==
    [ headers |-> <<>>,
      parts   |-> << [type |-> "text/plain", body |-> <<"%","P","D","F">>, charset |-> TRUE] >> ]

\* no bytes at all
NoBytes == [ headers |-> <<>>, parts |-> << >> ]

RawValues ==
    { [text |-> FALSE, padded |-> FALSE, bytes |-> NoBytes],    \* not a str
      [text |-> TRUE, padded |-> FALSE, bytes |-> NoBytes] }    \* incorrect padding
    \cup { [text |-> TRUE, padded |-> TRUE, bytes |-> b] : b \in {Letter, HtmlLetter, Junk, NoBytes} }

RawMessages ==
    DictsOf(<< "id", "raw", "internalDate", "snippet" >>,
            [ id |-> { <<"m","1">> }, raw |-> RawValues, internalDate |-> { <<"5","0","0","0">>, <<"1","9","9","9">>, <<"s","o","o","n">> },
              snippet |-> { <<"h","e","l","l","o">> } ])

\* the text under 'data'
Text(t) == [padded |-> TRUE, utf8 |-> TRUE, text |-> t]

Payloads ==
    DictsOf(<< "headers", "mimeType", "body", "parts" >>,
            [ headers  |-> { << >>,
                             << [name |-> <<"F","r","o","m">>, value |-> <<"O","l","d"," ","<","o","l","d","@","x",".","o","r","g",">">>],
                                [name |-> <<"S","u","b","j","e","c","t">>, value |-> <<"H","i">>],
                                [name |-> <<"F","r","o","m">>, value |-> <<"T","e","c","h"," ","D","i","g","e","s","t"," ","<","n","e","w","s","@","t","e","c","h","d","i","g","e","s","t",".","s","u","b","s","t","a","c","k",".","c","o","m",">">>] >> },
              mimeType |-> { "text/plain", "multipart/alternative" },
              body     |-> { << >>,
                             [data |-> Text(<<"h","e","l","l","o"," ","h","t","t","p",":","/","/","e",".","o","r","g","/","1">>)],
                             [data |-> [padded |-> FALSE, utf8 |-> TRUE, text |-> <<>>]] },
              parts    |-> { << [mimeType |-> "text/plain", body |-> [data |-> Text(<<"p","l","a","i","n">>)]],
                                [mimeType |-> "text/html", body |-> [data |-> Text(<<"<","b",">","h","t","t","p",":","/","/","e",".","o","r","g","/","2","<","/","b",">">>)],
                                 parts |-> << [mimeType |-> "text/html",
                                               body |-> [data |-> [padded |-> TRUE, utf8 |-> FALSE, text |-> <<>>]]] >>] >>,
                             << [mimeType |-> "text/html", body |-> [data |-> Text(<<"<","i",">","d","e","e","p","<","/","i",">">>)]],
                                [mimeType |-> "text/plain"] >> } ])

ApiMessages ==
    DictsOf(<< "id", "threadId", "internalDate", "labelIds", "payload" >>,
            [ id |-> { <<"m","1">> }, threadId |-> { <<"t","1">> }, internalDate |-> { <<"5","0","0","0">>, <<"1","9","9","9">>, <<"s","o","o","n">> },
              labelIds |-> { << <<"I","N","B","O","X">>, <<"L","a","b","e","l","_","7">>, <<"U","N","R","E","A","D">> >> },
              payload |-> Payloads ])

Parsers == {"parse_gmail_raw_message", "parse_gmail_message", "_parse_message"}

InitParse ==
    /\ pc = "call" /\ result = <<>>
    /\ \/ op = "parse_gmail_raw_message" /\ gmail_message \in RawMessages
       \/ op \in {"parse_gmail_message", "_parse_message"} /\ gmail_message \in ApiMessages
    /\ sender = <<>> /\ sender_email = <<>> /\ subject = <<>>
    /\ content_html = <<>> /\ content_plain = <<>>
    /\ NamesIdle /\ PipelineIdle /\ ApiIdle

ParseGmailRawMessageCall ==
    /\ pc = "call" /\ op = "parse_gmail_raw_message"
    /\ Return(ParseGmailRawMessage(gmail_message))

ParseGmailMessageCall ==
    /\ pc = "call" /\ op = "parse_gmail_message"
    /\ \E r \in ParseGmailMessage(gmail_message) : Return(r)

FetcherParseMessageCall ==
    /\ pc = "call" /\ op = "_parse_message"
    /\ \E r \in FetcherParseMessage(gmail_message) : Return(r)

NextParse ==
    \/ ParseGmailRawMessageCall
    \/ ParseGmailMessageCall
    \/ FetcherParseMessageCall

SpecParse == InitParse /\ [][NextParse]_vars

---------------------------------------------------------------------------
\* some text under 'data' in the part or below it is not base64 of UTF-8
RECURSIVE HasBadData(_)
HasBadData(part) ==
    \/ HasData(part) /\ ~(part["body"]["data"].padded /\ part["body"]["data"].utf8)
    \/ "parts" \in DOMAIN part /\ \E i \in 1..Len(part["parts"]) : HasBadData(part["parts"][i])

\* a message without id, or whose content does not decode: without 'raw',
\* with a 'raw' that is no base64 text or holds no MIME message, or with
\* undecodable data in its payload
Malformed(m) ==
    \/ "id" \notin DOMAIN m
    \/ /\ op = "parse_gmail_raw_message"
       /\ \/ "raw" \notin DOMAIN m
          \/ ~(m["raw"].text /\ m["raw"].padded)
          \/ m["raw"].bytes = Junk
    \/ /\ op # "parse_gmail_raw_message"
       /\ "payload" \in DOMAIN m
       /\ HasBadData(m["payload"])

\* C13: for a malformed message the parser does not raise and returns the
\* placeholder record: the message's id or unknown, subject Parse Error,
\* sender unknown, timestamp 0, no plain content and no primary URL.
C13_PlaceholderForMalformed ==
    (pc = "return" /\ op \in Parsers /\ Malformed(gmail_message)) =>
        /\ ~result.raised
        /\ result.email.message_id = Get(gmail_message, "id", <<"u","n","k","n","o","w","n">>)
        /\ result.email.subject = <<"P","a","r","s","e"," ","E","r","r","o","r">>
        /\ result.email.sender = <<"u","n","k","n","o","w","n">>
        /\ result.email.timestamp = 0
        /\ result.email.content_plain = <<>>
        /\ "primary_url" \in DOMAIN result.email => result.email.primary_url = <<>>

(***************************************************************************)
(* Fetching a listing and storing it: GmailClient.get_messages,            *)
(* fetch_unread_newsletters, and full_pipeline with the fetcher's          *)
(* fetch_newsletters and the storage's store_newsletters.                  *)
(***************************************************************************)
MaxMessages == 2
MaxChunks == 2
MaxRuns == 2

\* the id of the n-th message of a listing
NthId(n) == <<"m">> \o << DigitChars[n + 1] >>

\* a message as format='raw' returns it, and one without its 'raw'
RawGood(id) ==
    [ id |-> id, internalDate |-> <<"5","0","0","0">>,
      raw |-> [text |-> TRUE, padded |-> TRUE, bytes |-> Letter] ]

RawBroken(id) == [ id |-> id, internalDate |-> <<"5","0","0","0">> ]

\* a message as format='full' returns it, and one without headers
ApiGood(id) ==
    [ id |-> id, threadId |-> id, internalDate |-> <<"5","0","0","0">>,
      payload |-> [ headers |-> << [name |-> <<"F","r","o","m">>, value |-> <<"T","e","c","h"," ","<","a","@","x",".","o","r","g",">">>],
                                   [name |-> <<"S","u","b","j","e","c","t">>, value |-> <<"H","i">>] >>,
                    mimeType |-> "text/plain",
                    body |-> [data |-> Text(<<"h","e","l","l","o">>)] ] ]

ApiBroken(id) ==
    [ id |-> id, threadId |-> id, internalDate |-> <<"5","0","0","0">>,
      payload |-> [ mimeType |-> "text/plain", body |-> [data |-> Text(<<"h","e","l","l","o">>)] ] ]

\* the listings of up to MaxMessages messages, each sound or broken
Mailboxes(Good(_), Broken(_)) ==
    UNION { { [i \in 1..n |-> IF i \in B THEN Broken(NthId(i)) ELSE Good(NthId(i))] :
                B \in SUBSET (1..n) } : n \in 0..MaxMessages }

\* the record of a sound message, as to_dict() gives it
RecordOf(id) == (CHOOSE r \in FetcherParseMessage(ApiGood(id)) : TRUE).email

\* the batches store_newsletters is called with: the records of a listing,
\* and one batch that holds a record twice
Batches ==
    { [i \in 1..n |-> RecordOf(NthId(i))] : n \in 0..MaxMessages }
    \cup { << RecordOf(NthId(1)), RecordOf(NthId(1)) >> }

\* what the vector store holds before the call, one entry for each document
InitialStores == { << >>, << NthId(1) >>, << NthId(2), NthId(2), NthId(1) >> }

GmailLoops == {"get_messages", "fetch_unread_newsletters"}

StoreQueries == {"search_newsletters", "get_collection_stats"}

InitPipeline ==
    /\ result = <<>>
    /\ outcomes = <<>> /\ message_ids = <<>> /\ marked = {} /\ json_saved = <<>>
    /\ checks = <<>> /\ to_process = <<>> /\ skipped_count = 0 /\ runs = <<>>
    /\ \/ /\ op \in GmailLoops /\ pc = "list"
          /\ mailbox \in Mailboxes(RawGood, RawBroken)
          /\ newsletters = <<>>
          /\ save_json = FALSE /\ skip_existing = FALSE /\ store_docs = <<>>
       \/ /\ op = "full_pipeline" /\ pc = "list"
          /\ mailbox \in Mailboxes(ApiGood, ApiBroken)
          /\ newsletters = <<>>
          /\ save_json \in BOOLEAN /\ skip_existing \in BOOLEAN
          /\ store_docs \in InitialStores
       \/ /\ op = "store_newsletters" /\ pc = "filter"
          /\ mailbox = <<>>
          /\ newsletters \in Batches
          /\ save_json = FALSE /\ skip_existing \in BOOLEAN
          /\ store_docs \in InitialStores
       \/ /\ op \in StoreQueries /\ pc = "query"
          /\ mailbox = <<>> /\ newsletters = <<>>
          /\ save_json = FALSE /\ skip_existing = FALSE
          /\ store_docs \in InitialStores
    /\ sender = <<>> /\ sender_email = <<>> /\ subject = <<>>
    /\ content_html = <<>> /\ content_plain = <<>>
    /\ NamesIdle /\ ParseIdle /\ ApiIdle

\* what the pipeline leaves alone
aside ==
    << sender, sender_email, subject, content_html, content_plain, calls, gmail_message, apiVars,
       runs >>

\* list_message_ids and get_newsletter_messages: the ids of the listing, or
\* no id when the list request raises HttpError
ListMessages ==
    /\ pc = "list"
    /\ \/ message_ids' = [i \in 1..Len(mailbox) |-> mailbox[i]["id"]]
       \/ message_ids' = <<>>
    /\ pc' = "fetch"
    /\ UNCHANGED << op, result, mailbox, outcomes, newsletters, marked, save_json, skip_existing,
                    json_saved, store_docs, checks, to_process, skipped_count, aside >>

\* the loop is at the end of the id list
Listed == pc = "fetch" /\ Len(outcomes) = Len(message_ids)

\* One turn of the loop: get_message, or get_message_content, of the next
\* id.  HttpError is caught there and the message left out.  The raw
\* parser returns a record whatever the message; an exception of the
\* fetcher's parser is caught nowhere and ends fetch_newsletters and
\* full_pipeline.
FetchMessage ==
    /\ pc = "fetch" /\ Len(outcomes) < Len(message_ids)
    /\ LET fetched == mailbox[Len(outcomes) + 1]
       IN \/ /\ outcomes' = Append(outcomes, "HttpError")
             /\ UNCHANGED << pc, result, newsletters >>
          \/ /\ op \in GmailLoops
             /\ outcomes' = Append(outcomes, "fetched")
             /\ newsletters' = Append(newsletters, ParseGmailRawMessage(fetched).email)
             /\ UNCHANGED << pc, result >>
          \/ /\ op = "full_pipeline"
             /\ outcomes' = Append(outcomes, "fetched")
             /\ \E parsed \in FetcherParseMessage(fetched) :
                   IF parsed.raised
                   THEN pc' = "raised" /\ result' = parsed.error /\ UNCHANGED newsletters
                   ELSE newsletters' = Append(newsletters, parsed.email) /\ UNCHANGED << pc, result >>
    /\ UNCHANGED << op, mailbox, message_ids, marked, save_json, skip_existing, json_saved,
                    store_docs, checks, to_process, skipped_count, aside >>

\* get_messages and fetch_unread_newsletters return the records
ReturnMessages ==
    /\ Listed /\ op \in GmailLoops
    /\ pc' = "return" /\ result' = newsletters
    /\ UNCHANGED << op, pipeVars, aside >>

\* ids of the records of a list
IdsOf(records) == {records[i].message_id : i \in 1..Len(records)}

\* a variant that marks the listed messages, fetched or not
MarkAsReadListed ==
    /\ Listed /\ op = "full_pipeline" /\ newsletters # <<>>
    /\ \E done \in SUBSET {message_ids[i] : i \in 1..Len(message_ids)} : marked' = marked \cup done
    /\ pc' = "fetched"
    /\ UNCHANGED << op, result, mailbox, message_ids, outcomes, newsletters, save_json,
                    skip_existing, json_saved, store_docs, checks, to_process, skipped_count,
                    aside >>

\* fetch_newsletters, after the loop: mark_as_read of the records' ids; a
\* modify request that raises HttpError leaves its message unread
MarkAsRead ==
    /\ Listed /\ op = "full_pipeline" /\ newsletters # <<>>
    /\ \E done \in SUBSET IdsOf(newsletters) : marked' = marked \cup done
    /\ pc' = "fetched"
    /\ UNCHANGED << op, result, mailbox, message_ids, outcomes, newsletters, save_json,
                    skip_existing, json_saved, store_docs, checks, to_process, skipped_count,
                    aside >>

\* a variant that saves the JSON file before it looks at what was fetched
PipelineStoppedAfterSave ==
    /\ Listed /\ op = "full_pipeline" /\ newsletters = <<>>
    /\ pc' = "return"
    /\ json_saved' = IF save_json THEN Append(json_saved, newsletters) ELSE json_saved
    /\ result' = [fetched |-> 0, stored |-> 0, skipped |-> 0, errors |-> 0, success |-> FALSE]
    /\ UNCHANGED << op, mailbox, message_ids, outcomes, newsletters, marked, save_json,
                    skip_existing, store_docs, checks, to_process, skipped_count, aside >>

\* fetch_newsletters returns no record (no id listed, or no message
\* fetched) and full_pipeline stops
PipelineStopped ==
    /\ Listed /\ op = "full_pipeline" /\ newsletters = <<>>
    /\ pc' = "return"
    /\ result' = [fetched |-> 0, stored |-> 0, skipped |-> 0, errors |-> 0, success |-> FALSE]
    /\ UNCHANGED << op, pipeVars, aside >>

\* full_pipeline, step 2: save_to_json when asked to
SaveToJson ==
    /\ pc = "fetched"
    /\ \/ save_json /\ json_saved' = Append(json_saved, newsletters)
       \/ ~save_json /\ UNCHANGED json_saved
    /\ pc' = "filter"
    /\ UNCHANGED << op, result, mailbox, message_ids, outcomes, newsletters, marked, save_json,
                    skip_existing, store_docs, checks, to_process, skipped_count, aside >>

\* a variant that looks at the first document of the store only
InStoreFirstOnly(id) == store_docs # <<>> /\ store_docs[1] = id

\* the documents of the store with this message_id
InStore(id) == \E i \in 1..Len(store_docs) : store_docs[i] = id

\* a variant without the continue: an existing record is counted as skipped
\* and prepared all the same
CheckExistingNoContinue ==
    /\ pc = "filter" /\ Len(checks) < Len(newsletters)
    /\ LET newsletter == newsletters[Len(checks) + 1]
       IN \/ /\ ~skip_existing
             /\ checks' = Append(checks, "none")
             /\ UNCHANGED skipped_count
          \/ /\ skip_existing /\ InStore(newsletter.message_id)
             /\ checks' = Append(checks, "found")
             /\ skipped_count' = skipped_count + 1
          \/ /\ skip_existing /\ ~InStore(newsletter.message_id)
             /\ checks' = Append(checks, "absent")
             /\ UNCHANGED skipped_count
          \/ /\ skip_existing
             /\ checks' = Append(checks, "failed")
             /\ UNCHANGED skipped_count
    /\ to_process' = Append(to_process, newsletters[Len(checks) + 1])
    /\ UNCHANGED << op, pc, result, mailbox, message_ids, outcomes, newsletters, marked,
                    save_json, skip_existing, json_saved, store_docs, aside >>

\* a variant that counts a record whose check failed as existing
CheckExistingFailClosed ==
    /\ pc = "filter" /\ Len(checks) < Len(newsletters)
    /\ LET newsletter == newsletters[Len(checks) + 1]
       IN \/ /\ ~skip_existing
             /\ checks' = Append(checks, "none")
             /\ to_process' = Append(to_process, newsletter)
             /\ UNCHANGED skipped_count
          \/ /\ skip_existing /\ InStore(newsletter.message_id)
             /\ checks' = Append(checks, "found")
             /\ skipped_count' = skipped_count + 1
             /\ UNCHANGED to_process
          \/ /\ skip_existing /\ ~InStore(newsletter.message_id)
             /\ checks' = Append(checks, "absent")
             /\ to_process' = Append(to_process, newsletter)
             /\ UNCHANGED skipped_count
          \/ /\ skip_existing
             /\ checks' = Append(checks, "failed")
             /\ skipped_count' = skipped_count + 1
             /\ UNCHANGED to_process
    /\ UNCHANGED << op, pc, result, mailbox, message_ids, outcomes, newsletters, marked,
                    save_json, skip_existing, json_saved, store_docs, aside >>

\* store_newsletters, one turn of the first loop.  check_document_exists
\* answers False when the query raises.
CheckExisting ==
    /\ pc = "filter" /\ Len(checks) < Len(newsletters)
    /\ LET newsletter == newsletters[Len(checks) + 1]
       IN \/ /\ ~skip_existing
             /\ checks' = Append(checks, "none")
             /\ to_process' = Append(to_process, newsletter)
             /\ UNCHANGED skipped_count
          \/ /\ skip_existing /\ InStore(newsletter.message_id)
             /\ checks' = Append(checks, "found")
             /\ skipped_count' = skipped_count + 1
             /\ UNCHANGED to_process
          \/ /\ skip_existing /\ ~InStore(newsletter.message_id)
             /\ checks' = Append(checks, "absent")
             /\ to_process' = Append(to_process, newsletter)
             /\ UNCHANGED skipped_count
          \/ /\ skip_existing
             /\ checks' = Append(checks, "failed")
             /\ to_process' = Append(to_process, newsletter)
             /\ UNCHANGED skipped_count
    /\ UNCHANGED << op, pc, result, mailbox, message_ids, outcomes, newsletters, marked,
                    save_json, skip_existing, json_saved, store_docs, aside >>

\* the first loop of store_newsletters is over
Filtered == pc = "filter" /\ Len(checks) = Len(newsletters)

\* what store_newsletters returns, and what full_pipeline makes of it
Stats(stored, errors) ==
    [total_processed |-> Len(newsletters), stored |-> stored, skipped |-> skipped_count,
     errors |-> errors]

FinalStatsStoredOnly(stats) ==
    IF op = "full_pipeline"
    THEN [fetched |-> Len(newsletters), stored |-> stats.stored, skipped |-> stats.skipped,
          errors |-> stats.errors, success |-> stats.stored > 0]
    ELSE stats

FinalStats(stats) ==
    IF op = "full_pipeline"
    THEN [fetched |-> Len(newsletters), stored |-> stats.stored, skipped |-> stats.skipped,
          errors |-> stats.errors, success |-> stats.stored > 0 \/ stats.skipped > 0]
    ELSE stats

NothingToStore ==
    /\ Filtered /\ to_process = <<>>
    /\ pc' = "return" /\ result' = FinalStats(Stats(0, 0))
    /\ UNCHANGED << op, pipeVars, aside >>

\* k times the message_id of each record
RECURSIVE ChunkIds(_, _)
ChunkIds(records, k) ==
    IF records = <<>> THEN <<>>
    ELSE [j \in 1..k |-> records[1].message_id] \o ChunkIds(Tail(records), k)

\* a variant whose except counts the whole batch, skipped records included
IndexDocumentsCountingAll ==
    /\ Filtered /\ to_process # <<>>
    /\ \/ \E k \in 1..MaxChunks :
             /\ store_docs' = store_docs \o ChunkIds(to_process, k)
             /\ result' = FinalStats(Stats(k * Len(to_process), 0))
       \/ /\ UNCHANGED store_docs
          /\ result' = FinalStats(Stats(0, Len(newsletters)))
    /\ pc' = "return"
    /\ UNCHANGED << op, mailbox, message_ids, outcomes, newsletters, marked, save_json,
                    skip_existing, json_saved, checks, to_process, skipped_count, aside >>

\* store_newsletters, the try: the documents are made, split, embedded and
\* written, each record as one document or more, or something raises and
\* the whole batch is counted as errors
IndexDocuments ==
    /\ Filtered /\ to_process # <<>>
    /\ \/ \E k \in 1..MaxChunks :
             /\ store_docs' = store_docs \o ChunkIds(to_process, k)
             /\ result' = FinalStats(Stats(k * Len(to_process), 0))
       \/ /\ UNCHANGED store_docs
          /\ result' = FinalStats(Stats(0, Len(to_process)))
    /\ pc' = "return"
    /\ UNCHANGED << op, mailbox, message_ids, outcomes, newsletters, marked, save_json,
                    skip_existing, json_saved, checks, to_process, skipped_count, aside >>

\* update_from_json: store_newsletters is called again on the batch that was
\* saved, with skip_existing
StoreAgain ==
    /\ op = "store_newsletters" /\ pc = "return" /\ Len(runs) + 1 < MaxRuns
    /\ runs' = Append(runs, [stats |-> result, store |-> store_docs])
    /\ skip_existing' = TRUE
    /\ pc' = "filter" /\ result' = <<>>
    /\ checks' = <<>> /\ to_process' = <<>> /\ skipped_count' = 0
    /\ UNCHANGED << op, mailbox, message_ids, outcomes, newsletters, marked, save_json,
                    json_saved, store_docs, sender, sender_email, subject, content_html,
                    content_plain, calls, gmail_message, apiVars >>

\* top_k of search_newsletters
TopK == 5

\* the message of the exception of a store that cannot be reached
StoreError == <<"C","o","n","n","e","c","t","i","o","n"," ","r","e","f","u","s","e","d">>

\* the meta of the documents of a message: those of its record
MetaOf(id) == RecordOf(id)

\* one formatted result
Formatted(id, score) == [content |-> MetaOf(id).content_plain, score |-> score, metadata |-> MetaOf(id)]

\* what retriever.run can answer: at most top_k documents of the store
Hits ==
    { hit \in SUBSET (1..Len(store_docs)) : Cardinality(hit) <= TopK }

\* the documents of a set of positions, in the order of the store
RECURSIVE Ranked(_)
Ranked(hit) ==
    IF hit = {} THEN <<>>
    ELSE LET i == CHOOSE j \in hit : \A k \in hit : j <= k
         IN << Formatted(store_docs[i], Cardinality(hit)) >> \o Ranked(hit \ {i})

\* a variant without the try: the exception leaves search_newsletters
SearchNewslettersUncaught ==
    /\ pc = "query" /\ op = "search_newsletters"
    /\ \/ /\ checks' = Append(checks, "failed")
          /\ pc' = "raised" /\ result' = StoreError
       \/ /\ checks' = Append(checks, "answered")
          /\ pc' = "return"
          /\ \E hit \in Hits : result' = Ranked(hit)
    /\ UNCHANGED << op, mailbox, message_ids, outcomes, newsletters, marked, save_json,
                    skip_existing, json_saved, store_docs, to_process, skipped_count, aside >>

\* search_newsletters: the query is embedded and the retriever run, or one of
\* the two raises and the except returns []
SearchNewsletters ==
    /\ pc = "query" /\ op = "search_newsletters"
    /\ \/ /\ checks' = Append(checks, "failed")
          /\ result' = <<>>
       \/ /\ checks' = Append(checks, "answered")
          /\ \E hit \in Hits : result' = Ranked(hit)
    /\ pc' = "return"
    /\ UNCHANGED << op, mailbox, message_ids, outcomes, newsletters, marked, save_json,
                    skip_existing, json_saved, store_docs, to_process, skipped_count, aside >>

\* how many documents of the store are of this newsletter
CountOf(name) ==
    Cardinality({i \in 1..Len(store_docs) : MetaOf(store_docs[i]).newsletter_name = name})

\* the timestamps of the documents that have one
Timestamps ==
    { MetaOf(store_docs[i]).timestamp : i \in 1..Len(store_docs) } \ {0}

\* datetime.fromtimestamp(t).isoformat()
IsoFormat(t) == << "isoformat", t >>

\* what get_collection_stats returns of a store that answers
CollectionStats ==
    IF Len(store_docs) = 0 THEN [total_documents |-> 0]
    ELSE [ total_documents |-> Len(store_docs),
           newsletter_distribution |->
               [name \in {MetaOf(store_docs[i]).newsletter_name : i \in 1..Len(store_docs)}
                    |-> CountOf(name)],
           date_range |->
               IF Timestamps = {} THEN [earliest |-> << >>, latest |-> << >>]
               ELSE [ earliest |-> IsoFormat(CHOOSE t \in Timestamps : \A u \in Timestamps : t <= u),
                      latest |-> IsoFormat(CHOOSE t \in Timestamps : \A u \in Timestamps : u <= t) ] ]

\* get_collection_stats: filter_documents answers, or it raises and the
\* except returns the error
GetCollectionStats ==
    /\ pc = "query" /\ op = "get_collection_stats"
    /\ \/ /\ checks' = Append(checks, "failed")
          /\ result' = [error |-> StoreError]
       \/ /\ checks' = Append(checks, "answered")
          /\ result' = CollectionStats
    /\ pc' = "return"
    /\ UNCHANGED << op, mailbox, message_ids, outcomes, newsletters, marked, save_json,
                    skip_existing, json_saved, store_docs, to_process, skipped_count, aside >>

NextPipeline ==
    \/ ListMessages
    \/ FetchMessage
    \/ ReturnMessages
    \/ MarkAsRead
    \/ PipelineStopped
    \/ SaveToJson
    \/ CheckExisting
    \/ NothingToStore
    \/ IndexDocuments
    \/ SearchNewsletters
    \/ GetCollectionStats
    \/ StoreAgain

SpecPipeline == InitPipeline /\ [][NextPipeline]_vars

---------------------------------------------------------------------------
FetchLoops == GmailLoops \cup {"full_pipeline"}

\* the parser cannot read the message: no 'raw' in the raw format, no
\* headers in the full format
Unparsable(m) ==
    IF op \in GmailLoops THEN "raw" \notin DOMAIN m ELSE "headers" \notin DOMAIN m["payload"]

\* the listed messages that were fetched and parsed, in listing order
Succeeded ==
    SelectSeq([i \in 1..Len(outcomes) |-> i],
              LAMBDA i : outcomes[i] = "fetched" /\ ~Unparsable(mailbox[i]))

\* C14: a message whose fetch or parse fails is skipped and the loop goes
\* on: nothing is raised, the loop ends at the end of the id list, and the
\* records it leaves are those of the messages that succeeded, in listing
\* order.
C14_FailedMessagesSkipped ==
    op \in FetchLoops =>
        /\ pc # "raised"
        /\ pc \notin {"list", "fetch"} =>
              /\ Len(outcomes) = Len(message_ids)
              /\ [i \in 1..Len(newsletters) |-> newsletters[i].message_id]
                    = [j \in 1..Len(Succeeded) |-> mailbox[Succeeded[j]]["id"]]

---------------------------------------------------------------------------
\* C15: when the query matches no message, full_pipeline returns fetched,
\* stored, skipped and errors 0 with success false, and on its way writes
\* no JSON file, marks no message as read and leaves the vector store as it
\* was.
C15_NothingMatched ==
    /\ [](  (op = "full_pipeline" /\ mailbox = <<>>) =>
               /\ pc \in {"list", "fetch", "return"}
               /\ json_saved = <<>> /\ marked = {} /\ checks = <<>> /\ to_process = <<>>
               /\ pc = "return" =>
                     result = [fetched |-> 0, stored |-> 0, skipped |-> 0, errors |-> 0,
                               success |-> FALSE] )
    /\ [][ (op = "full_pipeline" /\ mailbox = <<>>) =>
               UNCHANGED << json_saved, marked, store_docs >> ]_vars

\* full_pipeline has returned on an empty listing, with documents in the
\* store and JSON asked for
C15_Witness ==
    /\ op = "full_pipeline" /\ pc = "return"
    /\ mailbox = <<>> /\ save_json /\ store_docs # <<>>
    /\ result.success = FALSE /\ result.fetched = 0

---------------------------------------------------------------------------
Storing == op \in {"store_newsletters", "full_pipeline"}

\* the store holds a document of this message
Holds(id) == id \in {store_docs[i] : i \in 1..Len(store_docs)}

\* the records checked so far that satisfy Keep, in batch order
Checked(Keep(_)) ==
    LET kept == SelectSeq([i \in 1..Len(checks) |-> i], Keep)
    IN [j \in 1..Len(kept) |-> newsletters[kept[j]]]

\* C16 as stated: with skip_existing no record whose message_id the store
\* holds is submitted and each such record is counted as skipped; without
\* it nothing is checked, every record is submitted and skipped is 0.
C16_ExistingNeverSubmitted ==
    (Storing /\ pc = "filter") =>
        IF skip_existing
        THEN /\ \A i \in 1..Len(to_process) : ~Holds(to_process[i].message_id)
             /\ skipped_count = Len(Checked(LAMBDA i : Holds(newsletters[i].message_id)))
        ELSE /\ \A i \in 1..Len(checks) : checks[i] = "none"
             /\ to_process = SubSeq(newsletters, 1, Len(checks))
             /\ skipped_count = 0

\* C16 amended: with skip_existing no record that the existence check
\* found in the store is submitted and each such record is counted as
\* skipped, the check finding a record only if the store holds it; every
\* other record, one whose check failed included, is submitted.  Without
\* skip_existing nothing is checked, every record is submitted and skipped
\* is 0.
C16_FoundNeverSubmitted ==
    (Storing /\ pc \in {"filter", "return"}) =>
        /\ skip_existing =>
              /\ to_process = Checked(LAMBDA i : checks[i] # "found")
              /\ skipped_count = Len(Checked(LAMBDA i : checks[i] = "found"))
              /\ pc = "filter" =>
                    \A i \in 1..Len(checks) :
                        /\ checks[i] = "found" => Holds(newsletters[i].message_id)
                        /\ checks[i] = "absent" => ~Holds(newsletters[i].message_id)
        /\ ~skip_existing =>
              /\ \A i \in 1..Len(checks) : checks[i] = "none"
              /\ to_process = SubSeq(newsletters, 1, Len(checks))
              /\ skipped_count = 0
        /\ pc = "return" => result.skipped = skipped_count

\* a batch of which one record was found and skipped and another indexed
C16_Witness ==
    /\ op = "store_newsletters" /\ pc = "return" /\ skip_existing
    /\ \E i, j \in 1..Len(checks) : checks[i] = "found" /\ checks[j] = "absent"
    /\ result.skipped = 1 /\ result.stored > 0

(***************************************************************************)
(* The query API: query_rag of rag_api, query_rag_system and get_retriever *)
(* of rag_client, NewsletterRetriever of retriever.  The server handles    *)
(* requests on threads, so the steps of two requests interleave; a step    *)
(* reads or writes the global _retriever at most once.                     *)
(***************************************************************************)
MaxRequests == 2

Requests == 1..MaxRequests

\* datetime.now().isoformat()
Now == <<"2","0","2","5","-","0","7","-","0","1","T","1","2",":","0","0",":","0","0">>

\* a RAGChunk as retrieve() builds it from a document
RAGChunk(content, score) == [content |-> content, score |-> score]

\* what the store answers to a query: documents, or an exception of the
\* import, of the constructor, or of pipeline.run
Retrievals ==
    { [fails |-> "none", chunks |-> << >>],
      [fails |-> "none", chunks |-> << RAGChunk(<<"A","I"," ","n","e","w","s">>, 2), RAGChunk(<<"M","o","r","e"," ","A","I">>, 1) >>],
      [fails |-> "import", chunks |-> << >>],
      [fails |-> "construct", chunks |-> << >>],
      [fails |-> "retrieve", chunks |-> << >>] }

\* str(e) of the exception
ErrorText(fails) ==
    CASE fails = "import" -> <<"N","o"," ","m","o","d","u","l","e"," ","n","a","m","e","d"," ","'","h","a","y","s","t","a","c","k","'">>
      [] fails = "construct" -> <<"U","n","s","u","p","p","o","r","t","e","d"," ","e","m","b","e","d","d","i","n","g"," ","p","r","o","v","i","d","e","r",":"," ","x">>
      [] OTHER -> <<"C","o","n","n","e","c","t","i","o","n"," ","r","e","f","u","s","e","d">>

\* request.args of the requests: no parameter, an empty user_query, a
\* question alone, a user_query, a user_query and a question
QueryArgs ==
    { << >>,
      "user_query" :> << >>,
      "question" :> <<"a","i">>,
      "user_query" :> <<"a","i">>,
      ("user_query" :> <<"a","i">>) @@ ("question" :> <<"a","i">>) }

\* if not user_query, on request.args.get('user_query')
NotGivenMissingOnly(args, key) == key \notin DOMAIN args

NotGiven(args, key) == key \notin DOMAIN args \/ args[key] = << >>

\* a request as it arrives
Arriving(args, store) ==
    [ args |-> args, store |-> store, pc |-> "received",
      built |-> 0, retriever |-> 0, called |-> FALSE, raised |-> "none",
      alone |-> TRUE, response |-> << >> ]

\* the requests whose answer depends on the store come with each store
\* answer, the others with one
Arrivals ==
    { Arriving(a, s) : a \in { q \in QueryArgs : ~NotGiven(q, "user_query") }, s \in Retrievals }
    \cup { Arriving(a, CHOOSE s \in Retrievals : s.fails = "none" /\ s.chunks # << >>) :
             a \in { q \in QueryArgs : NotGiven(q, "user_query") } }

InitApi ==
    /\ op = "query_rag" /\ pc = "serve" /\ result = <<>>
    /\ sender = <<>> /\ sender_email = <<>> /\ subject = <<>>
    /\ content_html = <<>> /\ content_plain = <<>>
    /\ requests \in [Requests -> Arrivals]
    /\ _retriever = 0 /\ instances = 0
    /\ NamesIdle /\ ParseIdle /\ PipelineIdle

apiAside ==
    << op, sender, sender_email, subject, content_html, content_plain, pc, result, calls,
       gmail_message, pipeVars >>

\* jsonify(body), status
Respond(r, status, body) ==
    requests' = [requests EXCEPT ![r].pc = "done",
                                 ![r].response = [status |-> status, body |-> body]]

\* the body of the answer to an exception
Failure(fails) ==
    [success |-> FALSE, error |-> <<"F","a","i","l","e","d"," ","t","o"," ","q","u","e","r","y"," ","R","A","G"," ","s","y","s","t","e","m">>, message |-> ErrorText(fails)]

\* the except clause of query_rag
Failed(r, fails) ==
    requests' = [requests EXCEPT ![r].pc = "done", ![r].raised = fails,
                                 ![r].response = [status |-> 500, body |-> Failure(fails)]]

\* query_rag up to the call of get_retriever: the parameter is read and
\* checked, rag_client is imported
ReceiveRequest(r) ==
    /\ requests[r].pc = "received"
    /\ IF NotGiven(requests[r].args, "user_query")
       THEN Respond(r, 400, [error |-> <<"M","i","s","s","i","n","g"," ","r","e","q","u","i","r","e","d"," ","p","a","r","a","m","e","t","e","r",":"," ","u","s","e","r","_","q","u","e","r","y">>])
       ELSE IF requests[r].store.fails = "import"
       THEN Failed(r, "import")
       ELSE requests' = [requests EXCEPT ![r].pc = "check"]
    /\ UNCHANGED << _retriever, instances, apiAside >>

\* the requests that are inside get_retriever
Inside == { q \in Requests : requests[q].pc \in {"construct", "assign", "return"} }

\* r enters get_retriever and goes to next: a request is alone in
\* get_retriever as long as no other request is inside with it
Enter(r, next) ==
    requests' = [q \in Requests |->
                    IF q = r THEN [requests[r] EXCEPT !.pc = next, !.alone = (Inside = {})]
                    ELSE IF q \in Inside THEN [requests[q] EXCEPT !.alone = FALSE]
                    ELSE requests[q]]

\* a variant without the test: every call constructs
CheckInstanceAlways(r) ==
    /\ requests[r].pc = "check"
    /\ Enter(r, "construct")
    /\ UNCHANGED << _retriever, instances, apiAside >>

\* get_retriever: if _retriever is None
CheckInstance(r) ==
    /\ requests[r].pc = "check"
    /\ Enter(r, IF _retriever = 0 THEN "construct" ELSE "return")
    /\ UNCHANGED << _retriever, instances, apiAside >>

\* get_retriever: NewsletterRetriever()
Construct(r) ==
    /\ requests[r].pc = "construct"
    /\ IF requests[r].store.fails = "construct"
       THEN Failed(r, "construct") /\ UNCHANGED instances
       ELSE /\ instances' = instances + 1
            /\ requests' = [requests EXCEPT ![r].pc = "assign", ![r].built = instances + 1]
    /\ UNCHANGED << _retriever, apiAside >>

\* get_retriever: _retriever = ...
AssignIfUnset(r) ==
    /\ requests[r].pc = "assign"
    /\ _retriever' = IF _retriever = 0 THEN requests[r].built ELSE _retriever
    /\ requests' = [requests EXCEPT ![r].pc = "return"]
    /\ UNCHANGED << instances, apiAside >>

Assign(r) ==
    /\ requests[r].pc = "assign"
    /\ _retriever' = requests[r].built
    /\ requests' = [requests EXCEPT ![r].pc = "return"]
    /\ UNCHANGED << instances, apiAside >>

\* get_retriever: return _retriever
ReturnInstance(r) ==
    /\ requests[r].pc = "return"
    /\ requests' = [requests EXCEPT ![r].pc = "retrieve", ![r].retriever = _retriever]
    /\ UNCHANGED << _retriever, instances, apiAside >>

\* the body of the answer to a retrieval that returned context
FoundWithoutContext(user_query, context) ==
    [success |-> TRUE, user_query |-> user_query, context |-> << >>, timestamp |-> Now]

Found(user_query, context) ==
    [success |-> TRUE, user_query |-> user_query, context |-> context, timestamp |-> Now]

\* the body of the answer to a retrieval that returned nothing
NotFound(user_query) ==
    [success |-> FALSE, error |-> <<"N","o"," ","r","e","l","e","v","a","n","t"," ","c","o","n","t","e","x","t"," ","f","o","u","n","d">>, user_query |-> user_query]

\* retriever.retrieve() raised: query_rag_system raises it again
RetrieveFailed(r) ==
    requests' = [requests EXCEPT
        ![r].pc = "done", ![r].called = TRUE, ![r].raised = "retrieve",
        ![r].response = [status |-> 500, body |-> Failure("retrieve")]]

\* jsonify(body), status after the retrieval
Answer(r, status, body) ==
    requests' = [requests EXCEPT ![r].pc = "done", ![r].called = TRUE,
                                 ![r].response = [status |-> status, body |-> body]]

\* retriever.retrieve() and the rest of query_rag
RetrieveNoEmptyCheck(r) ==
    /\ requests[r].pc = "retrieve"
    /\ LET user_query == requests[r].args["user_query"]
           context == requests[r].store.chunks
       IN  IF requests[r].store.fails = "retrieve"
           THEN RetrieveFailed(r)
           ELSE Answer(r, 200, Found(user_query, context))
    /\ UNCHANGED << _retriever, instances, apiAside >>

Retrieve(r) ==
    /\ requests[r].pc = "retrieve"
    /\ LET user_query == requests[r].args["user_query"]
           context == requests[r].store.chunks
       IN  IF requests[r].store.fails = "retrieve"
           THEN RetrieveFailed(r)
           ELSE IF context = << >>
           THEN Answer(r, 404, NotFound(user_query))
           ELSE Answer(r, 200, Found(user_query, context))
    /\ UNCHANGED << _retriever, instances, apiAside >>

NextApi ==
    \E r \in Requests :
        \/ ReceiveRequest(r)
        \/ CheckInstance(r)
        \/ Construct(r)
        \/ Assign(r)
        \/ ReturnInstance(r)
        \/ Retrieve(r)

SpecApi == InitApi /\ [][NextApi]_vars

\* the requests that were answered
Answered == { r \in Requests : requests[r].pc = "done" }

\* the keys of the body of the answer to r
BodyKeys(r) == DOMAIN requests[r].response.body

\* the store answers the query of this request with at least one chunk
ReturnsChunks(r) == requests[r].store.fails = "none" /\ requests[r].store.chunks # << >>

\* the answer to r is 200 with success, the parameter echoed under its own
\* name, the retrieved chunks and a timestamp
SuccessEchoing(r, key) ==
    /\ requests[r].response.status = 200
    /\ BodyKeys(r) = {"success", key, "context", "timestamp"}
    /\ requests[r].response.body.success = TRUE
    /\ requests[r].response.body[key] = requests[r].args[key]
    /\ requests[r].response.body.context = requests[r].store.chunks

\* C17: as stated, a request with a non-empty question parameter whose
\* retrieval returns at least one chunk is answered 200 with success=true,
\* question echoing the input, the retrieved chunks as context and a
\* timestamp
C17_QuestionAnswered ==
    \A r \in Answered :
        ~NotGiven(requests[r].args, "question") /\ ReturnsChunks(r)
            => SuccessEchoing(r, "question")

\* C17: a request with a non-empty user_query parameter whose retrieval
\* returns at least one chunk is answered 200 with success=true, user_query
\* echoing the input, the retrieved chunks as context and a timestamp; a
\* request without it is answered 400 whatever its question parameter is
C17_UserQueryAnswered ==
    \A r \in Answered :
        /\ ~NotGiven(requests[r].args, "user_query") /\ ReturnsChunks(r)
               => SuccessEchoing(r, "user_query")
        /\ NotGiven(requests[r].args, "user_query") => requests[r].response.status = 400

\* C17: a request with a user_query was answered from two retrieved chunks,
\* and a request with a question alone was answered too
C17_Witness ==
    /\ \E r \in Answered :
           /\ ~NotGiven(requests[r].args, "user_query")
           /\ requests[r].called /\ requests[r].response.status = 200
           /\ Len(requests[r].response.body.context) = 2
    /\ \E r \in Answered :
           /\ ~NotGiven(requests[r].args, "question")
           /\ NotGiven(requests[r].args, "user_query")

\* the store answers the query of this request with an empty list
ReturnsNothing(r) ==
    /\ ~NotGiven(requests[r].args, "user_query")
    /\ requests[r].store.fails = "none" /\ requests[r].store.chunks = << >>

\* the answer to r is 404 with success=false, an error and the query under
\* this key
NotFoundNaming(r, key) ==
    /\ requests[r].response.status = 404
    /\ BodyKeys(r) = {"success", "error", key}
    /\ requests[r].response.body.success = FALSE

\* C18: as stated, a request with a valid query whose retrieval returns an
\* empty list is answered 404 with the body {success:false, error, question}
C18_EmptyIsNotFoundQuestion ==
    \A r \in Answered : ReturnsNothing(r) => NotFoundNaming(r, "question")

\* C18: a request with a valid query whose retrieval returns an empty list is
\* answered 404 with the body {success:false, error, user_query}, the query
\* echoed; it is never answered 200 and never answered 500
C18_EmptyIsNotFound ==
    \A r \in Answered :
        ReturnsNothing(r) =>
            /\ NotFoundNaming(r, "user_query")
            /\ requests[r].response.body.user_query = requests[r].args["user_query"]
            /\ requests[r].response.status \notin {200, 500}

\* C18: a request whose retrieval was called and returned an empty list was
\* answered
C18_Witness ==
    \E r \in Answered : ReturnsNothing(r) /\ requests[r].called /\ requests[r].retriever # 0

\* the request carries no user_query, or an empty one
MissingOrEmpty(r) ==
    \/ "user_query" \notin DOMAIN requests[r].args
    \/ Len(requests[r].args["user_query"]) = 0

\* retrieval raises during this request
Raises(r) == requests[r].raised # "none"

\* the retriever was neither looked up, constructed nor called for r
RetrieverUntouched(r) ==
    ~requests[r].called /\ requests[r].retriever = 0 /\ requests[r].built = 0

\* the body of the answer to r is {success:false, error, message}
FailureBody(r) ==
    /\ BodyKeys(r) = {"success", "error", "message"}
    /\ requests[r].response.body.success = FALSE

\* C19: as stated, a request whose query parameter is missing or empty is
\* answered 400 without calling the retriever, a request during which
\* retrieval raises is answered 500, and in both cases the body is
\* {success:false, error, message}
C19_FailuresShareBody ==
    \A r \in Answered :
        /\ MissingOrEmpty(r) =>
               requests[r].response.status = 400 /\ RetrieverUntouched(r) /\ FailureBody(r)
        /\ Raises(r) => requests[r].response.status = 500 /\ FailureBody(r)

\* C19: a request whose query parameter is missing or empty is answered 400
\* with the body {error} without calling the retriever, and a request during
\* which retrieval raises is answered 500 with the body
\* {success:false, error, message}, the message being the exception's text
C19_FailureAnswers ==
    \A r \in Answered :
        /\ MissingOrEmpty(r) =>
               /\ requests[r].response.status = 400
               /\ RetrieverUntouched(r)
               /\ BodyKeys(r) = {"error"}
        /\ Raises(r) =>
               /\ requests[r].response.status = 500
               /\ FailureBody(r)
               /\ requests[r].response.body.message = ErrorText(requests[r].raised)

\* C19: a request with an empty user_query was answered, and so was one whose
\* retriever was called and raised
C19_Witness ==
    /\ \E r \in Answered : requests[r].args = ("user_query" :> << >>)
    /\ \E r \in Answered : Raises(r) /\ requests[r].called

\* the requests that constructed a NewsletterRetriever
Constructors == { r \in Requests : requests[r].built # 0 }

\* every constructed instance is a new one, and a request holds an instance
\* that some request constructed
InstancesDistinct ==
    /\ instances = Cardinality(Constructors)
    /\ \A r, q \in Constructors : r # q => requests[r].built # requests[q].built
    /\ \A r \in Requests : requests[r].retriever # 0
           => requests[r].retriever \in { requests[q].built : q \in Constructors }

\* C20: creation of the shared retriever is unsynchronized: a request that
\* observed the instance as unset constructs a new NewsletterRetriever and
\* assigns it whatever the other requests assigned in between (the last
\* assignment is kept), and a request returns the instance the global holds
\* when it reads it
C20_UnsynchronizedCreation ==
    /\ []InstancesDistinct
    /\ [][\A r \in Requests :
              /\ requests[r].pc = "construct" /\ requests'[r].pc = "assign"
                     => instances' = instances + 1 /\ requests'[r].built = instances'
              /\ requests[r].pc = "assign" /\ requests'[r].pc = "return"
                     => _retriever' = requests[r].built
              /\ requests[r].pc = "return" /\ requests'[r].pc = "retrieve"
                     => requests'[r].retriever = _retriever]_vars

\* C20: two requests saw the instance unset and each constructed one; they
\* hold different instances and the global keeps the one assigned last
C20_Witness ==
    \E r, q \in Requests :
        /\ instances > 1
        /\ requests[r].retriever # 0 /\ requests[q].retriever # 0
        /\ requests[r].retriever # requests[q].retriever
        /\ requests[r].retriever = requests[r].built
        /\ requests[q].retriever = requests[q].built
        /\ _retriever = requests[q].built
        /\ requests[r].built < requests[q].built

(***************************************************************************)
(* The timestamp of a record.                                              *)
(***************************************************************************)
\* t is n floor-divided by d
IsFloorOf(t, n, d) == d * t <= n /\ n < d * (t + 1)

\* a parser returned a record for the message
Parsed == pc = "return" /\ op \in Parsers /\ ~result.raised

\* the record is the one the parser falls back to on an exception
IsPlaceholder(email) == email.subject = <<"P","a","r","s","e"," ","E","r","r","o","r">> /\ email.sender = <<"u","n","k","n","o","w","n">>

\* the timestamp is internalDate in seconds, 0 without internalDate
SecondsOf(m, email) ==
    IF "internalDate" \in DOMAIN m
    THEN IsInt(m["internalDate"]) => IsFloorOf(email.timestamp, IntOf(m["internalDate"]), 1000)
    ELSE email.timestamp = 0

\* C21: as stated, for every message the record's timestamp equals the
\* message's internalDate floor-divided by 1000, and is 0 when internalDate
\* is absent
C21_TimestampInSeconds ==
    Parsed => SecondsOf(gmail_message, result.email)

\* C21: for every message the record's timestamp equals the message's
\* internalDate floor-divided by 1000, and is 0 when internalDate is absent,
\* unless the record is the parse-error placeholder, whose timestamp is 0
\* whatever the internalDate
C21_TimestampInSecondsUnlessPlaceholder ==
    Parsed =>
        IF IsPlaceholder(result.email)
        THEN result.email.timestamp = 0
        ELSE SecondsOf(gmail_message, result.email)

\* C21: a record was made of a message whose internalDate is no multiple of
\* 1000
C21_Witness ==
    /\ Parsed /\ ~IsPlaceholder(result.email)
    /\ "internalDate" \in DOMAIN gmail_message
    /\ gmail_message["internalDate"] = <<"1","9","9","9">>
    /\ result.email.timestamp = 1

(***************************************************************************)
(* The content of a record.                                                *)
(***************************************************************************)
\* a parser was applied to a message whose body tree it reached: the
\* statements before the extraction did not fail
Extracted ==
    /\ pc = "return" /\ op \in {"parse_gmail_message", "_parse_message"}
    /\ "payload" \in DOMAIN gmail_message
    /\ "headers" \in DOMAIN gmail_message["payload"]
    /\ ~BadInternalDate(gmail_message)

\* C22: for every body tree the content extractor returns the text/plain
\* segments concatenated in traversal order as the plain body and the
\* text/html segments as the HTML body, a part without data adding nothing,
\* and it never raises (undecodable bytes are replaced)
C22_ContentOfEveryTree ==
    Extracted =>
        /\ result.raised => result.error # "DecodeError"
        /\ ~result.raised =>
               /\ result.email.content_plain = ContentOf(gmail_message["payload"], "text/plain")
               /\ result.email.content_html = ContentOf(gmail_message["payload"], "text/html")

(***************************************************************************)
(* The vector store fails during a search or a statistics request.         *)
(***************************************************************************)
\* the store was queried for op and the query raised
StoreFailed == op \in StoreQueries /\ pc # "query" /\ checks = << "failed" >>

\* C23: as stated, when the vector store fails during a search or a
\* statistics request the exception does not propagate: search_newsletters
\* returns the empty list and get_collection_stats returns zero-count
\* statistics
C23_FailureGivesZeroCounts ==
    StoreFailed =>
        /\ pc = "return"
        /\ op = "search_newsletters" => result = << >>
        /\ op = "get_collection_stats" =>
               "total_documents" \in DOMAIN result /\ result["total_documents"] = 0

\* C23: when the vector store fails during a search or a statistics request
\* the exception does not propagate: search_newsletters returns the empty
\* list and get_collection_stats returns a dict that holds the error text
\* and no count
C23_FailureGivesEmptyOrError ==
    StoreFailed =>
        /\ pc = "return"
        /\ op = "search_newsletters" => result = << >>
        /\ op = "get_collection_stats" => DOMAIN result = {"error"} /\ result["error"] = StoreError

\* C23: a statistics request on a store that holds documents failed and
\* returned
C23_Witness ==
    StoreFailed /\ op = "get_collection_stats" /\ store_docs # << >> /\ pc = "return"

(***************************************************************************)
(* Marking as read in the full pipeline.                                   *)
(***************************************************************************)
\* the pass is over
AfterMarking == pc \in {"fetched", "filter", "return"}

\* marking happens in the one step that follows the fetch loop, and the
\* store is written only later, by the indexing
MarkedBetweenFetchAndStore ==
    op = "full_pipeline" =>
        /\ marked' # marked => Listed /\ pc' = "fetched" /\ store_docs' = store_docs
        /\ store_docs' # store_docs => Filtered /\ marked' = marked

\* C24: as stated, messages are marked as read in one pass after every
\* listed message was fetched and parsed and before any record is written to
\* the store; the ids marked are exactly the ids of the successfully parsed
\* messages, and no message is marked when none was parsed
C24_ExactlyTheParsedMarked ==
    /\ [](op = "full_pipeline" =>
            /\ ~AfterMarking => marked = {}
            /\ AfterMarking => marked = IdsOf(newsletters))
    /\ [][MarkedBetweenFetchAndStore]_vars

\* C24: messages are marked as read in one pass after every listed message
\* was fetched and parsed and before any record is written to the store;
\* only ids of successfully parsed messages are marked (a message whose
\* fetch failed, or whose modify request failed, stays unread), and no
\* message is marked when none was parsed
C24_OnlyTheParsedMarked ==
    /\ [](op = "full_pipeline" =>
            /\ ~AfterMarking => marked = {}
            /\ marked \subseteq IdsOf(newsletters)
            /\ \A i \in 1..Len(outcomes) : outcomes[i] = "HttpError" => mailbox[i]["id"] \notin marked)
    /\ [][MarkedBetweenFetchAndStore]_vars

\* C24: of two listed messages one was fetched, parsed, marked and then
\* written to the store, the other's fetch failed and it stayed unread
C24_Witness ==
    /\ op = "full_pipeline" /\ pc = "return"
    /\ Len(message_ids) = 2 /\ Len(newsletters) = 1
    /\ marked = IdsOf(newsletters)
    /\ \E i \in 1..Len(store_docs) : store_docs[i] \in marked
    /\ result.stored > 0

(***************************************************************************)
(* The counts store_newsletters returns.                                   *)
(***************************************************************************)
\* store_newsletters has returned its counts
Stored == Storing /\ pc = "return" /\ newsletters # << >>

\* the step is the try of store_newsletters
Indexing == Storing /\ pc = "filter" /\ pc' = "return" /\ to_process # << >>

\* C25: for every store_newsletters call, total_processed is the batch size,
\* every record is either counted in skipped or submitted to the indexing
\* pipeline, and if the pipeline raises (nothing is written) stored is 0 and
\* errors is the number of non-skipped records, the exception not
\* propagating; otherwise errors is 0
C25_CountsAddUp ==
    /\ [](Stored =>
            /\ op = "store_newsletters" => result.total_processed = Len(newsletters)
            /\ result.skipped + Len(to_process) = Len(newsletters)
            /\ result.errors \in {0, Len(to_process)}
            /\ result.errors > 0 => result.stored = 0)
    /\ [][Indexing =>
            IF store_docs' = store_docs
            THEN result'.stored = 0 /\ result'.errors = Len(to_process)
            ELSE result'.errors = 0 /\ result'.stored = Len(store_docs') - Len(store_docs)]_vars

\* C25: a call returned after it skipped one record and the indexing of the
\* other raised
C25_Witness ==
    /\ op = "store_newsletters" /\ pc = "return"
    /\ Len(newsletters) = 2 /\ result.skipped = 1
    /\ result.errors = 1 /\ result.stored = 0 /\ result.total_processed = 2

(***************************************************************************)
(* What full_pipeline reports.                                             *)
(***************************************************************************)
\* the listed messages that were fetched and parsed
ParsedCount == Cardinality({i \in 1..Len(outcomes) : outcomes[i] = "fetched"})

\* full_pipeline has returned after it fetched a message
Reported == op = "full_pipeline" /\ pc = "return" /\ ParsedCount > 0

\* C26: when at least one message was fetched, full_pipeline reports fetched
\* as the number of parsed messages and success exactly when stored > 0 or
\* skipped > 0; a run in which every non-skipped record failed to index and
\* nothing was skipped reports success false
C26_SuccessIffStoredOrSkipped ==
    Reported =>
        /\ result.fetched = ParsedCount
        /\ result.success <=> (result.stored > 0 \/ result.skipped > 0)
        /\ (result.errors = result.fetched /\ result.skipped = 0) => ~result.success

\* C26: a run fetched two messages, skipped none and failed to index both
C26_Witness ==
    /\ Reported /\ result.fetched = 2
    /\ result.errors = 2 /\ result.skipped = 0 /\ result.stored = 0
    /\ ~result.success

(***************************************************************************)
(* Storing the same batch again.                                           *)
(***************************************************************************)
\* the message_ids the store holds documents of
StoredIds(docs) == {docs[i] : i \in 1..Len(docs)}

\* store_newsletters has returned from a second run on the batch, the first
\* run having indexed every record without error
RanTwice ==
    /\ op = "store_newsletters" /\ pc = "return" /\ skip_existing
    /\ Len(runs) = 1 /\ runs[1].stats.errors = 0

\* the second run wrote nothing and skipped the whole batch
NothingNew ==
    /\ store_docs = runs[1].store
    /\ StoredIds(store_docs) = StoredIds(runs[1].store)
    /\ result = [total_processed |-> Len(newsletters), stored |-> 0,
                 skipped |-> Len(newsletters), errors |-> 0]

FailedChecks == {i \in 1..Len(checks) : checks[i] = "failed"}

\* how many of the first n checks found their record
RECURSIVE FoundBefore(_)
FoundBefore(n) ==
    IF n = 0 THEN 0 ELSE FoundBefore(n - 1) + (IF checks[n] = "found" THEN 1 ELSE 0)

\* C28: check_document_exists never raises: a record whose existence query
\* failed is taken as not existing, so with skip_existing it is submitted
\* for indexing and not counted as skipped, and the remaining records of the
\* batch are still checked
C28_FailedCheckSubmits ==
    (Storing /\ skip_existing /\ pc \in {"filter", "return"}) =>
        /\ \A i \in FailedChecks :
               /\ i - FoundBefore(i) \in 1..Len(to_process)
               /\ to_process[i - FoundBefore(i)] = newsletters[i]
        /\ skipped_count = FoundBefore(Len(checks))
        /\ pc = "return" => Len(checks) = Len(newsletters)

\* C28: the existence check of the first record of a batch failed and the
\* second record was checked and found all the same
C28_Witness ==
    /\ op = "store_newsletters" /\ pc = "return" /\ skip_existing
    /\ checks = << "failed", "found" >>
    /\ Len(to_process) = 1 /\ result.skipped = 1

(***************************************************************************)
(* Calls of get_retriever one after the other.                             *)
(***************************************************************************)
\* no two calls of get_retriever overlapped so far
Sequential == \A r \in Requests : requests[r].alone

\* the requests get_retriever has returned an instance to
Served == { r \in Requests : requests[r].retriever # 0 }

\* C29: in a sequential series of get_retriever calls NewsletterRetriever is
\* constructed at most once after its first successful construction and
\* every later call returns that same instance; a construction that raises
\* caches no instance, and the next call attempts construction again
C29_SequentialCallsShareInstance ==
    /\ [](Sequential =>
            /\ instances <= 1
            /\ \A r \in Served : requests[r].retriever = 1
            /\ instances = 0 => _retriever = 0
            /\ (instances = 1 /\ Inside = {}) => _retriever = 1)
    /\ [][\A r \in Requests :
            (Sequential' /\ requests[r].pc = "check" /\ requests'[r].pc # "check")
                => (requests'[r].pc = "construct" <=> instances = 0)]_vars

\* C29: a call constructed the instance and returned it, and a later call
\* that did not overlap it returned the same instance without constructing
C29_Witness ==
    /\ Sequential /\ instances = 1
    /\ \E r, q \in Served :
           /\ requests[r].built = 1 /\ requests[q].built = 0
           /\ requests[r].retriever = requests[q].retriever

(***************************************************************************)
(* The three copies of the URL extractor.                                  *)
(***************************************************************************)
\* C30: the three copies of the URL extractor are equivalent: for every
\* content with at most 10 distinct links outside the skip list, whatever
\* copy is called returns the set of URLs that each of the three returns
C30_ExtractorsEquivalent ==
    LET content == PyOr(content_html, content_plain)
    IN (pc = "return" /\ op \in UrlExtractors /\ Cardinality(Candidates(content)) <= Limit) =>
           \A r \in ExtractUrls(content) \cup FetcherExtractUrls(content)
                        \cup LegacyExtractUrls(content) :
               Elems(r) = Elems(result)
====
